---- MODULE Spec2Model ----
(***************************************************************************)
(* State-machine model of the NanoLLM chat front-ends:                     *)
(*   nano_llm/chat/main_with_time_and_json_and_image_http.py  ("http")     *)
(*   nano_llm/chat/main_with_time_and_json.py                 ("tj")       *)
(*   nano_llm/chat/__main__.py                                ("main")     *)
(* Texts are sequences of one-character strings, so that the string        *)
(* conversions of the scripts are computed and not assumed.                *)
(***************************************************************************)
EXTENDS Integers, Sequences, FiniteSets, TLC

\* ------------------------------------------------------------------ bounds
MaxPrompts == 2      \* prompts read by a CLI loop in one behaviour
MaxFragments == 2    \* fragments the backend streams yield in one behaviour
MaxRequests == 2     \* concurrent /describe requests
MaxClock == 1        \* largest value of time.time() (seconds, from 0)
MaxTools == 1        \* tool responses appended in one behaviour

\* ------------------------------------------------------------------- texts
None == <<>>         \* Python None / "" (both falsy where the scripts test them)

Whitespace == {" ", "\n", "\t"}
Digits == {"0", "1", "2", "3", "4", "5", "6", "7", "8", "9"}
EOS == <<"<", "/", "s", ">">>

\* the element of a singleton set; {e(x) : x \in {arg}} evaluates arg once
\* however often e uses x
The(S) == CHOOSE v \in S : TRUE

RECURSIVE Concat(_)
\* "".join(list): the accumulated reply_text after the fragments of the list
Concat(fs) == IF fs = <<>> THEN <<>> ELSE Head(fs) \o Concat(Tail(fs))

StartsWith(text, prefix) ==
    \E s \in {text} : \E p \in {prefix} :
        Len(s) >= Len(p) /\ SubSeq(s, 1, Len(p)) = p
EndsWith(text, suffix) ==
    \E s \in {text} : \E p \in {suffix} :
        Len(s) >= Len(p) /\ SubSeq(s, Len(s) - Len(p) + 1, Len(s)) = p

RECURSIVE LStripChars(_, _)
LStripChars(text, cs) ==
    The({IF s # <<>> /\ Head(s) \in cs THEN LStripChars(Tail(s), cs) ELSE s :
            s \in {text}})

RECURSIVE RStripChars(_, _)
RStripChars(text, cs) ==
    The({IF s # <<>> /\ s[Len(s)] \in cs
         THEN RStripChars(SubSeq(s, 1, Len(s) - 1), cs) ELSE s : s \in {text}})

\* str.strip(chars)
StripChars(s, cs) == RStripChars(LStripChars(s, cs), cs)
\* str.strip()
Strip(s) == StripChars(s, Whitespace)
\* s.strip().strip("'").strip('"')
StripQuotes(s) == StripChars(StripChars(Strip(s), {"'"}), {"\""})

RECURSIVE RemoveEOS(_)
\* str.replace("</s>", ""): one left-to-right pass over non-overlapping matches
RemoveEOS(s) ==
    IF s = <<>> THEN <<>>
    ELSE IF StartsWith(s, EOS) THEN RemoveEOS(SubSeq(s, Len(EOS) + 1, Len(s)))
    ELSE <<Head(s)>> \o RemoveEOS(Tail(s))

RECURSIVE SplitLines(_)
\* str.splitlines(): no empty last line after a final line break, "" gives []
SplitLines(s) ==
    IF s = <<>> THEN <<>>
    ELSE LET brk == {i \in 1..Len(s) : s[i] = "\n"} IN
         IF brk = {} THEN <<s>>
         ELSE LET i == CHOOSE j \in brk : \A k \in brk : j <= k IN
              <<SubSeq(s, 1, i - 1)>> \o SplitLines(SubSeq(s, i + 1, Len(s)))

RECURSIVE JoinLines(_)
\* "\n".join(lines)
JoinLines(ls) ==
    IF ls = <<>> THEN <<>>
    ELSE IF Len(ls) = 1 THEN ls[1]
    ELSE ls[1] \o <<"\n">> \o JoinLines(Tail(ls))

RECURSIVE LStripDigits(_)
LStripDigits(s) == IF s # <<>> /\ Head(s) \in Digits THEN LStripDigits(Tail(s)) ELSE s

\* re.sub(r"^\s*\d+[\.\)]\s*", "", ln) on one line
StripNumbering(ln) ==
    LET a == LStripChars(ln, Whitespace)
        b == LStripDigits(a)
    IN  IF Len(b) < Len(a) /\ b # <<>> /\ Head(b) \in {".", ")"}
        THEN LStripChars(Tail(b), Whitespace)
        ELSE ln

\* _clean_llm_text(t)
clean_llm_text(t) ==
    LET s == Strip(RemoveEOS(t))
        ls == SplitLines(s)
    IN  Strip(JoinLines([i \in 1..Len(ls) |-> StripNumbering(ls[i])]))

\* ------------------------------------------------------------------- paths
Upper == <<"A", "B", "C", "D", "E", "F", "G", "H", "I", "J", "K", "L", "M",
           "N", "O", "P", "Q", "R", "S", "T", "U", "V", "W", "X", "Y", "Z">>
LowerOf == <<"a", "b", "c", "d", "e", "f", "g", "h", "i", "j", "k", "l", "m",
             "n", "o", "p", "q", "r", "s", "t", "u", "v", "w", "x", "y", "z">>
LowerChar(c) ==
    IF \E i \in 1..Len(Upper) : Upper[i] = c
    THEN LowerOf[CHOOSE i \in 1..Len(Upper) : Upper[i] = c] ELSE c
\* str.lower()
Lower(text) == The({[i \in 1..Len(s) |-> LowerChar(s[i])] : s \in {text}})

\* s.find(c) / s.rfind(c) as 1-based positions, 0 when absent
Find(text, cs) ==
    The({IF at = {} THEN 0 ELSE CHOOSE i \in at : \A j \in at : i <= j :
            at \in {{i \in 1..Len(s) : s[i] \in cs} : s \in {text}}})
RFind(text, cs) ==
    The({IF at = {} THEN 0 ELSE CHOOSE i \in at : \A j \in at : i >= j :
            at \in {{i \in 1..Len(s) : s[i] \in cs} : s \in {text}}})
UpTo(text, cs) ==
    The({IF Find(s, cs) = 0 THEN s ELSE SubSeq(s, 1, Find(s, cs) - 1) : s \in {text}})

HTTP == <<"h", "t", "t", "p", ":", "/", "/">>
HTTPS == <<"h", "t", "t", "p", "s", ":", "/", "/">>
\* p.lower().startswith(("http://", "https://"))
IsUrl(p) == StartsWith(Lower(p), HTTP) \/ StartsWith(Lower(p), HTTPS)

\* urlparse(p).path of an http(s) URL: what follows the network location, up
\* to the query or fragment, without the parameters of its last segment
UrlPath(p) ==
    LET rest == SubSeq(p, Find(p, {":"}) + 3, Len(p))
        loc == UpTo(rest, {"/", "?", "#"})
        full == UpTo(SubSeq(rest, Len(loc) + 1, Len(rest)), {"?", "#"})
        seg == RFind(full, {"/"})
        semi == Find(SubSeq(full, seg + 1, Len(full)), {";"})
    IN  IF semi = 0 THEN full ELSE SubSeq(full, 1, seg + semi - 1)

\* os.path.basename(path)
Basename(path) == The({SubSeq(p, RFind(p, {"/"}) + 1, Len(p)) : p \in {path}})

\* index of the dot that starts the extension, 0 when there is none
ExtDot(path) ==
    The({IF dot > sep /\ \E i \in (sep + 1)..(dot - 1) : p[i] # "." THEN dot ELSE 0 :
            <<p, sep, dot>> \in {<<q, RFind(q, {"/"}), RFind(q, {"."})>> : q \in {path}}})
\* os.path.splitext(p)[0] and [1]
SplitExtRoot(path) ==
    The({IF dot = 0 THEN p ELSE SubSeq(p, 1, dot - 1) :
            <<p, dot>> \in {<<q, ExtDot(q)>> : q \in {path}}})
SplitExtExt(path) ==
    The({IF dot = 0 THEN <<>> ELSE SubSeq(p, dot, Len(p)) :
            <<p, dot>> \in {<<q, ExtDot(q)>> : q \in {path}}})

DotJson == <<".", "j", "s", "o", "n">>
ImageBase == <<"i", "m", "a", "g", "e">>

\* _ext_of(path)
ext_of(path) ==
    LET p == StripQuotes(path) IN
    IF IsUrl(p) THEN Lower(SplitExtExt(UrlPath(p))) ELSE Lower(SplitExtExt(p))

\* the fallback set of _is_image_path_or_url, IMAGE_EXTS of __main__.py
IMAGE_EXTS ==
    { <<".", "j", "p", "g">>, <<".", "j", "p", "e", "g">>, <<".", "p", "n", "g">>,
      <<".", "w", "e", "b", "p">>, <<".", "b", "m", "p">>, <<".", "g", "i", "f">>,
      <<".", "t", "i", "f", "f">>, <<".", "t", "i", "f">> }

\* _json_path_for_image without the URL branch
Mut_json_path_for_image(image_path_or_url) ==
    SplitExtRoot(StripQuotes(image_path_or_url)) \o DotJson

\* _json_path_for_image(image_path_or_url), the same in the three scripts
json_path_for_image(image_path_or_url) ==
    LET p == StripQuotes(image_path_or_url) IN
    IF IsUrl(p)
    THEN LET b == Basename(UrlPath(p))
             base == IF b = <<>> THEN ImageBase ELSE b
         IN  SplitExtRoot(base) \o DotJson
    ELSE SplitExtRoot(p) \o DotJson

\* ------------------------------------------------------- ledger documents
\* What a ledger file holds. json.load either fails (unparseable) or gives a
\* JSON value; an object is its top-level keys (other than "entries") and its
\* "entries" value.
Absent == [t |-> "absent"]
Unparseable(w) == [t |-> "unparseable", why |-> w]
JScalar == [t |-> "scalar"]                      \* number, true, false, null
JString(has) == [t |-> "string", has |-> has]    \* has: "entries" in value
JArray(has) == [t |-> "array", has |-> has]      \* has: "entries" in value
EMissing == [t |-> "missing"]
ENotList == [t |-> "notlist"]
EList(v) == [t |-> "list", v |-> v]
JObject(top, entries) == [t |-> "object", top |-> top, entries |-> entries]
EmptyTop == [k \in {} |-> <<>>]                 \* {}

ModelName == <<"v", "i", "l", "a">>     \* model.repo_id or model.name
ApiName == <<"m", "l", "c">>            \* model.api

\* the fresh document shell of the three append functions
FreshDoc(image_path) ==
    JObject([image_path |-> image_path, model |-> ModelName, api |-> ApiName],
            EList(<<>>))

Record(ts, prompt, response) ==
    [timestamp |-> ts, prompt |-> prompt, response |-> response]

\* os.path.exists + json.load under try/except: None ({} in _append_json)
\* when the file is absent or cannot be parsed
LoadJson(content) ==
    IF content.t \in {"absent", "unparseable"} THEN Absent ELSE content

\* _append_entry_to_json starting from the fresh shell whatever was loaded
MutAppendEntryDoc(content, image_path_or_url, record) ==
    [raised |-> FALSE,
     doc |-> JObject(FreshDoc(StripQuotes(image_path_or_url)).top, EList(<<record>>))]

\* _append_entry_to_json refreshing the metadata of the document it loaded
MutRefreshEntryDoc(content, image_path_or_url, record) ==
    LET loaded == LoadJson(content)
        doc == IF loaded.t # "object"
               THEN FreshDoc(StripQuotes(image_path_or_url)) ELSE loaded
        ent == IF doc.entries.t = "missing" THEN EList(<<>>) ELSE doc.entries
    IN  IF ent.t = "list"
        THEN [raised |-> FALSE,
              doc |-> JObject(FreshDoc(StripQuotes(image_path_or_url)).top,
                              EList(Append(ent.v, record)))]
        ELSE [raised |-> TRUE, doc |-> doc]

\* _append_entry_to_json, in memory: the document to write, or the exception
AppendEntryDoc(content, image_path_or_url, record) ==
    LET loaded == LoadJson(content)
        doc == IF loaded.t # "object"
               THEN FreshDoc(StripQuotes(image_path_or_url)) ELSE loaded
        \* doc.setdefault("entries", [])
        ent == IF doc.entries.t = "missing" THEN EList(<<>>) ELSE doc.entries
    IN  IF ent.t = "list"
        THEN [raised |-> FALSE,
              doc |-> JObject(doc.top, EList(Append(ent.v, record)))]
        ELSE [raised |-> TRUE, doc |-> doc]   \* doc["entries"].append: AttributeError

\* _append_json of __main__.py, in memory
AppendJsonDoc(content, img_path, record) ==
    LET loaded == LoadJson(content)
        data == IF loaded.t = "absent" THEN JObject(EmptyTop, EMissing) ELSE loaded
        \* "entries" not in data
        typeError == data.t = "scalar"
        notIn == CASE data.t = "object" -> data.entries.t = "missing"
                   [] data.t \in {"string", "array"} -> ~data.has
                   [] OTHER -> FALSE
        \* data.get("entries"): only a dict has it
        attrError == ~notIn /\ data.t \in {"string", "array"}
        fresh == notIn \/ (data.t = "object" /\ data.entries.t # "list")
        doc == IF fresh THEN FreshDoc(img_path) ELSE data
    IN  IF typeError \/ attrError
        THEN [raised |-> TRUE, doc |-> data]
        ELSE [raised |-> FALSE,
              doc |-> JObject(doc.top, EList(Append(doc.entries.v, record)))]

\* a complete, well-formed ledger document
WellFormed(c) == c.t = "object" /\ c.entries.t = "list"
\* a file that exists and is not a valid document
Malformed(c) == c.t # "absent" /\ ~WellFormed(c)
Entries(c) == IF WellFormed(c) THEN c.entries.v ELSE <<>>

\* ------------------------------------------------------------------ inputs
ImgA == <<"a", ".", "j", "p", "g">>
ImgPng == <<"a", ".", "p", "n", "g">>
ImgUrl == HTTP \o <<"h", "/", "b", ".", "p", "n", "g">>
Hi == <<"h", "i">>
ResetText == <<"r", "e", "s", "e", "t">>
ClearText == <<"c", "l", "e", "a", "r">>
AutoPrompt == <<"D", "e", "s", "c", "r", "i", "b", "e">>   \* "Describe the image"
Question == <<"w", "h", "y", "?">>
ErrorText == <<"[", "e", "r", "r", "o", "r", "]">>  \* "[error] generation failed: ..."
SystemPrompt == <<"s", "y", "s">>

Keys == {json_path_for_image(ImgA), json_path_for_image(ImgUrl)}

\* what a streaming backend can yield as one fragment
Fragments == { <<"a">>, <<" ">>, <<"1", ".", " ">>, EOS }
\* what a blocking generation can return
Replies == { <<"a">>, <<" ", "a">> \o EOS }
PlainReplies == { <<"a">> }

Threads == {"cli", "r1", "r2", "r3"}

VARIABLES
    script,           \* the front-end that runs: "http", "tj" or "main"
    args,             \* the parsed command line
    messages,         \* chat_history.messages: the Turn Store
    kv_cache,         \* chat_history.kv_cache: the Cache Reuse Tracker
    last_image_path,  \* last_image_path / last_image
    interrupt,        \* the KeyboardInterrupt flag
    run_lock,         \* _run_lock: the thread holding it, or "free"
    th,               \* per thread: position in the code and its locals
    files,            \* the ledger files, by key
    clock,            \* time.time()
    seen,             \* what a reader of a ledger file last read
    n,                \* counters that bound the behaviours, and the log of
                      \* the ledger writes that completed (image, record)
    HISTORY,          \* the comm manager's deque of records, newest first
    LAST              \* the comm manager's latest caption, prompts and status

vars == <<script, args, messages, kv_cache, last_image_path, interrupt,
          run_lock, th, files, clock, seen, n, HISTORY, LAST>>

NoRecord == Record(0, None, None)

\* the receiver's answer to a request, before there is one
NoResponse ==
    [status |-> 0, ok |-> FALSE, json |-> None, image |-> None, image_error |-> FALSE]

\* LAST of the comm manager when it starts
NoLast == [vila_caption |-> <<>>, jetson2_prompts |-> <<>>,
           last_forward_status |-> <<>>]

\* the timing line with no throughput figure
NoThroughput == [throughput |-> FALSE, tokens |-> 0]

\* a thread that runs nothing
Idle ==
    [pc |-> "idle", user_prompt |-> None, generate |-> TRUE, position |-> 0,
     reply_text |-> None, token_count |-> 0, pulled |-> <<>>, cancel_at |-> -1,
     result |-> None, raised |-> FALSE, gen_failed |-> FALSE,
     json_path |-> None, record |-> NoRecord, doc |-> Absent, old |-> Absent,
     out_doc |-> Absent, status |-> 0, stopped |-> FALSE,
     step |-> 0, image_path |-> None, question |-> None,
     resp_describe |-> None, resp_question |-> None, http |-> 0,
     kv_cache_arg |-> [warm |-> FALSE, turns |-> 0], cache_position |-> 0,
     forward |-> "none", img_src |-> [readable |-> FALSE, size |-> -1],
     body |-> Absent, response |-> NoResponse,
     window |-> [turns |-> {}, truncated |-> FALSE],
     stats |-> NoThroughput, owl |-> FALSE, tmp |-> <<>>,
     caption |-> None, ts |-> 0, f_status |-> 0, prompts |-> <<>>,
     attempts |-> 0]

Cold == [warm |-> FALSE, turns |-> 0]

Turn(role, content, by) == [role |-> role, content |-> content, by |-> by]

\* ----------------------------------------------------------- the session
\* ChatHistory.append(role, content)
HistAppend(role, content, by) == Append(messages, Turn(role, content, by))

\* ChatHistory.reset(): the turns are discarded (the system prompt, when one
\* is configured, opens the new history) and the cache is dropped
HistReset ==
    /\ messages' = IF args.system_prompt
                   THEN <<Turn("system", SystemPrompt, "init")>> ELSE <<>>
    /\ kv_cache' = Cold

\* ChatHistory.turn('user'): it is the user's turn to speak
UserTurn ==
    IF messages = <<>> THEN TRUE
    ELSE messages[Len(messages)].role \in {"system", "bot"}

\* _is_image_path_or_url(user_text) of the http and tj scripts
is_image_path_or_url(user_text) ==
    user_text # <<>> /\ ext_of(user_text) \in IMAGE_EXTS

Upd(t, r) == th' = [th EXCEPT ![t] = r]

\* the locals of the append function are gone once its caller goes on
Returned(r) ==
    [r EXCEPT !.json_path = None, !.record = NoRecord, !.doc = Absent,
              !.old = Absent, !.out_doc = Absent, !.status = 0, !.raised = FALSE,
              !.forward = "none"]

\* where control goes when a turn's reply has been stored and saved
AfterSave == IF script = "http" /\ args.server THEN "describe" ELSE "tools"
\* where an exception nobody catches ends: the process dies, or Flask
\* answers 500 after the with-block released the lock
Uncaught == IF script = "http" /\ args.server THEN "http500" ELSE "crashed"

\* the 'reset' / 'clear' command of the CLI loops
MutResetCmd == last_image_path' = None /\ UNCHANGED <<messages, kv_cache>>
ResetCmd == HistReset /\ last_image_path' = None


\* CLI loop of the http script: fetch the next prompt, reset or run a cycle
CliTopHttp(Inputs) ==
    /\ script = "http" /\ ~args.server /\ th["cli"].pc = "top"
    /\ IF UserTurn
       THEN \E p \in Inputs :
              /\ n.prompts < MaxPrompts
              /\ n' = [n EXCEPT !.prompts = @ + 1]
              /\ IF Lower(p) \in {ResetText, ClearText}
                 THEN /\ ResetCmd
                      /\ Upd("cli", [th["cli"] EXCEPT !.user_prompt = p])
                 ELSE /\ Upd("cli", [th["cli"] EXCEPT !.pc = "pup",
                                        !.user_prompt = p, !.generate = TRUE])
                      /\ UNCHANGED <<messages, kv_cache, last_image_path>>
       ELSE /\ Upd("cli", [th["cli"] EXCEPT !.pc = "tools"])
            /\ UNCHANGED <<messages, kv_cache, last_image_path, n>>
    /\ UNCHANGED <<HISTORY, LAST, script, args, interrupt, run_lock, files, clock, seen>>

\* CLI loop of main_with_time_and_json.py down to the append of the user turn
CliTopTj(Inputs) ==
    /\ script = "tj" /\ th["cli"].pc = "top"
    /\ IF UserTurn
       THEN \E p \in Inputs :
              /\ n.prompts < MaxPrompts
              /\ n' = [n EXCEPT !.prompts = @ + 1]
              /\ IF Lower(p) \in {ResetText, ClearText}
                 THEN /\ ResetCmd
                      /\ Upd("cli", [th["cli"] EXCEPT !.user_prompt = p])
                 ELSE /\ last_image_path' = IF is_image_path_or_url(p)
                                            THEN StripQuotes(p) ELSE last_image_path
                      /\ messages' = HistAppend("user", p, "cli")
                      /\ Upd("cli", [th["cli"] EXCEPT !.pc = "embed", !.user_prompt = p])
                      /\ UNCHANGED kv_cache
       ELSE /\ Upd("cli", [th["cli"] EXCEPT !.pc = "embed"])
            /\ UNCHANGED <<messages, kv_cache, last_image_path, n>>
    /\ UNCHANGED <<HISTORY, LAST, script, args, interrupt, run_lock, files, clock, seen>>

\* _is_image_path_or_url(text) of __main__.py: a local path must exist
is_image_main(text, exists) ==
    /\ text # <<>>
    /\ LET s == StripQuotes(text) IN
       IF IsUrl(s) THEN Lower(SplitExtExt(UrlPath(s))) \in IMAGE_EXTS
       ELSE Lower(SplitExtExt(s)) \in IMAGE_EXTS /\ exists

\* main loop of __main__.py down to the append of the user turn
CliTopMain(Inputs) ==
    /\ script = "main" /\ th["cli"].pc = "top"
    /\ \E p \in Inputs, exists \in BOOLEAN :
         /\ n.prompts < MaxPrompts
         /\ n' = [n EXCEPT !.prompts = @ + 1]
         /\ IF Lower(p) \in {ResetText, ClearText}
            THEN /\ ResetCmd
                 /\ Upd("cli", [th["cli"] EXCEPT !.user_prompt = p])
            ELSE /\ last_image_path' = IF is_image_main(p, exists)
                                       THEN StripQuotes(p) ELSE last_image_path
                 /\ messages' = HistAppend("user", p, "cli")
                 /\ Upd("cli", [th["cli"] EXCEPT
                        !.pc = IF args.owl_from_image /\ is_image_main(p, exists)
                               THEN "owl" ELSE "embed",
                        !.owl = args.owl_from_image /\ is_image_main(p, exists),
                        !.tmp = <<>>,
                        !.user_prompt = p])
                 /\ UNCHANGED kv_cache
    /\ UNCHANGED <<HISTORY, LAST, script, args, interrupt, run_lock, files, clock, seen>>

\* OWL_FROM_IMAGE_TEMPLATE
OwlTemplate == <<"f", "i", "n", "d">>

\* _run_owl_from_image: a temporary ChatHistory gets the image and the
\* template, one blocking generation without cache runs on it; an exception
\* falls back to the regular generation on the main history
OwlRun(t, R) ==
    /\ th[t].pc = "owl"
    /\ \/ \E out \in R :
            Upd(t, [th[t] EXCEPT
                      !.pc = "owl_bot", !.reply_text = clean_llm_text(out),
                      !.tmp = (IF args.system_prompt
                               THEN <<Turn("system", SystemPrompt, "init")>> ELSE <<>>)
                              \o <<Turn("user", last_image_path, t),
                                    Turn("user", OwlTemplate, t)>>])
       \/ Upd(t, [th[t] EXCEPT !.pc = "embed"])
    /\ UNCHANGED <<HISTORY, LAST, script, args, messages, kv_cache, last_image_path, interrupt,
                   run_lock, files, clock, seen, n>>

\* the fast path after the one-off: the cleaned reply becomes the bot turn of
\* the main history, then the ledger is saved inside the same try
OwlAppend(t) ==
    /\ th[t].pc = "owl_bot"
    /\ messages' = HistAppend("bot", th[t].reply_text, t)
    /\ Upd(t, IF args.save_json_by_image /\ last_image_path # None
              THEN [th[t] EXCEPT !.pc = "ae_load", !.result = th[t].reply_text,
                                 !.json_path = json_path_for_image(last_image_path)]
              ELSE [th[t] EXCEPT !.pc = AfterSave, !.result = th[t].reply_text])
    /\ UNCHANGED <<HISTORY, LAST, script, args, kv_cache, last_image_path, interrupt, run_lock,
                   files, clock, seen, n>>

\* the prompt list is exhausted (http, tj) or the user quits (__main__)
CliExit ==
    /\ ~args.server /\ th["cli"].pc = "top"
    /\ script \in {"http", "tj"} => UserTurn
    /\ Upd("cli", [th["cli"] EXCEPT !.pc = "exit"])
    /\ UNCHANGED <<HISTORY, LAST, script, args, messages, kv_cache, last_image_path, interrupt,
                   run_lock, files, clock, seen, n>>

\* process_user_prompt, entry: track the image, append the user turn, return
\* at once when nothing is to be generated
ProcessUserPrompt(t) ==
    /\ th[t].pc = "pup"
    /\ last_image_path' = IF is_image_path_or_url(th[t].user_prompt)
                          THEN StripQuotes(th[t].user_prompt) ELSE last_image_path
    /\ messages' = HistAppend("user", th[t].user_prompt, t)
    /\ Upd(t, IF th[t].generate
              THEN [th[t] EXCEPT !.pc = "embed"]
              ELSE [th[t] EXCEPT !.pc = AfterSave, !.result = None])
    /\ UNCHANGED <<HISTORY, LAST, script, args, kv_cache, interrupt, run_lock, files, clock, seen, n>>

\* the estimated token cost of a turn
Cost(turn) == Len(turn.content)

RECURSIVE Walk(_, _, _)
\* the turns 1..i that fit into what is left of the budget, walking from
\* the newest to the oldest and stopping at the first that does not fit
Walk(msgs, i, left) ==
    IF i = 0 \/ Cost(msgs[i]) > left THEN {}
    ELSE {i} \cup Walk(msgs, i - 1, left - Cost(msgs[i]))

\* a budgeter that keeps only what fits and the newest turn
MutContextWindow(msgs, B) ==
    [turns |-> Walk(msgs, Len(msgs), B) \cup (IF msgs = <<>> THEN {} ELSE {Len(msgs)}),
     truncated |-> msgs # <<>> /\ Cost(msgs[Len(msgs)]) > B]

\* the window of embed_chat(max_tokens=B): the turns that fit, the system
\* turn whatever the budget, and the newest turn, flagged when it alone
\* exceeds the budget
ContextWindow(msgs, B) ==
    [turns |-> Walk(msgs, Len(msgs), B)
                 \cup {i \in 1..Len(msgs) : msgs[i].role = "system"}
                 \cup (IF msgs = <<>> THEN {} ELSE {Len(msgs)}),
     truncated |-> msgs # <<>> /\ Cost(msgs[Len(msgs)]) > B]

\* chat_history.embed_chat(max_tokens=..., use_cache=...): the window of
\* turns, and the cache position: the number of turns the cache already covers
EmbedChat(t) ==
    /\ th[t].pc = "embed"
    /\ Upd(t, [th[t] EXCEPT !.pc = "generate",
                            !.window = ContextWindow(messages, args.max_tokens),
                            !.stats = NoThroughput, !.owl = FALSE, !.raised = FALSE,
                            !.position = IF args.has_embed /\ kv_cache.warm
                                         THEN kv_cache.turns ELSE 0,
                            !.reply_text = None, !.token_count = 0,
                            !.pulled = <<>>, !.cancel_at = -1, !.stopped = FALSE,
                            !.gen_failed = FALSE])
    /\ UNCHANGED <<HISTORY, LAST, script, args, messages, kv_cache, last_image_path, interrupt,
                   run_lock, files, clock, seen, n>>

\* model.generate called without the cursor of this turn's embed_chat
MutGenerateOk(t, R) ==
    /\ th[t].pc = "generate"
    /\ IF args.disable_streaming
       THEN \E r \in R :
              Upd(t, [th[t] EXCEPT !.pc = "after_gen",
                        !.kv_cache_arg = kv_cache,
                        !.cache_position = 0,
                        !.reply_text = IF script = "main" THEN clean_llm_text(r) ELSE r])
       ELSE Upd(t, [th[t] EXCEPT !.pc = "stream",
                        !.kv_cache_arg = kv_cache,
                        !.cache_position = 0])
    /\ UNCHANGED <<HISTORY, LAST, script, args, messages, kv_cache, last_image_path, interrupt,
                   run_lock, files, clock, seen, n>>

\* model.generate(...) returns: the whole text when streaming is disabled,
\* else a stream that is consumed fragment by fragment
GenerateOk(t, R) ==
    /\ th[t].pc = "generate"
    /\ IF args.disable_streaming
       THEN \E r \in R :
              Upd(t, [th[t] EXCEPT !.pc = "after_gen",
                        !.kv_cache_arg = kv_cache,
                        !.cache_position = th[t].position,
                        !.reply_text = IF script = "main" THEN clean_llm_text(r) ELSE r])
       ELSE Upd(t, [th[t] EXCEPT !.pc = "stream",
                        !.kv_cache_arg = kv_cache,
                        !.cache_position = th[t].position])
    /\ UNCHANGED <<HISTORY, LAST, script, args, messages, kv_cache, last_image_path, interrupt,
                   run_lock, files, clock, seen, n>>

\* a process_user_prompt that records the error turn and goes on to the save
MutGenerateRaises(t) ==
    /\ th[t].pc = "generate"
    /\ IF script = "http"
       THEN /\ messages' = HistAppend("bot", ErrorText, t)
            /\ Upd(t, [th[t] EXCEPT !.pc = "save", !.result = ErrorText,
                                    !.gen_failed = TRUE])
       ELSE /\ Upd(t, [th[t] EXCEPT !.pc = "crashed", !.gen_failed = TRUE])
            /\ UNCHANGED messages
    /\ UNCHANGED <<HISTORY, LAST, script, args, kv_cache, last_image_path, interrupt, run_lock,
                   files, clock, seen, n>>

\* model.generate(...) raises: process_user_prompt records an error turn and
\* returns the error text; the two other loops do not catch it
GenerateRaises(t) ==
    /\ th[t].pc = "generate"
    /\ IF script = "http"
       THEN /\ messages' = HistAppend("bot", ErrorText, t)
            /\ Upd(t, [th[t] EXCEPT !.pc = AfterSave, !.result = ErrorText,
                                    !.gen_failed = TRUE])
       ELSE /\ Upd(t, [th[t] EXCEPT !.pc = "crashed", !.gen_failed = TRUE])
            /\ UNCHANGED messages
    /\ UNCHANGED <<HISTORY, LAST, script, args, kv_cache, last_image_path, interrupt, run_lock,
                   files, clock, seen, n>>

\* the body of 'for token in reply' left running after an interrupt
MutPull(t, F) ==
    /\ th[t].pc = "stream"
    /\ n.fragments < MaxFragments
    /\ n' = [n EXCEPT !.fragments = @ + 1]
    /\ \E f \in F :
         /\ Upd(t, [th[t] EXCEPT !.reply_text = @ \o f, !.token_count = @ + 1,
                      !.pulled = Append(@, f),
                      !.stopped = @ \/ interrupt,
                      !.cancel_at = IF interrupt /\ @ < 0
                                    THEN th[t].token_count + 1 ELSE @])
         /\ interrupt' = FALSE
    /\ UNCHANGED <<HISTORY, LAST, script, args, messages, kv_cache, last_image_path, run_lock,
                   files, clock, seen>>

\* a timing line that always has the throughput figure
MutStreamStats(token_count) == [throughput |-> TRUE, tokens |-> token_count]

\* after the for loop: 'if token_count > 0' the line with the token count
\* and the throughput is printed
StreamStats(token_count) ==
    IF token_count > 0 THEN [throughput |-> TRUE, tokens |-> token_count]
    ELSE NoThroughput

\* one turn of 'for token in reply': the next fragment is appended to
\* reply_text and counted; a set interrupt flag stops the stream, is cleared
\* and ends the loop
Pull(t, F) ==
    /\ th[t].pc = "stream"
    /\ n.fragments < MaxFragments
    /\ n' = [n EXCEPT !.fragments = @ + 1]
    /\ \E f \in F :
         IF interrupt
         THEN /\ Upd(t, [th[t] EXCEPT !.reply_text = @ \o f, !.token_count = @ + 1,
                           !.pulled = Append(@, f), !.stopped = TRUE,
                           !.cancel_at = th[t].token_count + 1,
                           !.stats = StreamStats(th[t].token_count + 1),
                           !.pc = "after_gen"])
              /\ interrupt' = FALSE
         ELSE /\ Upd(t, [th[t] EXCEPT !.reply_text = @ \o f, !.token_count = @ + 1,
                           !.pulled = Append(@, f)])
              /\ UNCHANGED interrupt
    /\ UNCHANGED <<HISTORY, LAST, script, args, messages, kv_cache, last_image_path, run_lock,
                   files, clock, seen>>

\* the stream is exhausted: the for loop ends
StreamEnd(t) ==
    /\ th[t].pc = "stream"
    /\ Upd(t, [th[t] EXCEPT !.pc = "after_gen",
                            !.stats = StreamStats(th[t].token_count)])
    /\ UNCHANGED <<HISTORY, LAST, script, args, messages, kv_cache, last_image_path, interrupt,
                   run_lock, files, clock, seen, n>>

\* the text that becomes the bot turn: __main__.py cleans it first
BotText(text) == IF script = "main" THEN clean_llm_text(text) ELSE text

\* chat_history.append('bot', reply_text): the reply is stored and the cache
\* now covers the whole history
AppendBot(t) ==
    /\ th[t].pc = "after_gen"
    /\ messages' = HistAppend("bot", BotText(th[t].reply_text), t)
    /\ kv_cache' = [warm |-> TRUE, turns |-> Len(messages')]
    /\ Upd(t, [th[t] EXCEPT !.pc = "save", !.reply_text = BotText(@),
                            !.result = BotText(th[t].reply_text)])
    /\ UNCHANGED <<HISTORY, LAST, script, args, last_image_path, interrupt, run_lock, files,
                   clock, seen, n>>

\* 'if args.save_json_by_image': append to the ledger of the last image, or
\* warn that there is none
SaveJson(t) ==
    /\ th[t].pc = "save"
    /\ Upd(t, IF args.save_json_by_image /\ last_image_path # None
              THEN [th[t] EXCEPT !.pc = "ae_load",
                                 !.json_path = json_path_for_image(last_image_path)]
              ELSE [th[t] EXCEPT !.pc = AfterSave])
    /\ UNCHANGED <<HISTORY, LAST, script, args, messages, kv_cache, last_image_path, interrupt,
                   run_lock, files, clock, seen, n>>

\* what BotFunctions.run gives back when the text holds a tool call
ToolResponse == <<"4", "2">>
ToolTurns == {i \in 1..Len(messages) : messages[i].role = "tool_response"}

\* 'if args.enable_tools': BotFunctions.run on the last reply; its response,
\* when there is one, is appended as a tool_response turn; back to the top
RunTools ==
    /\ th["cli"].pc = "tools" /\ args.enable_tools
    /\ \E tool_response \in {None, ToolResponse} :
         IF tool_response # None
         THEN /\ Cardinality(ToolTurns) < MaxTools
              /\ messages' = HistAppend("tool_response", tool_response, "cli")
         ELSE UNCHANGED messages
    /\ Upd("cli", [Returned(th["cli"]) EXCEPT !.pc = "top"])
    /\ UNCHANGED <<HISTORY, LAST, script, args, kv_cache, last_image_path, interrupt,
                   run_lock, files, clock, seen, n>>

\* the end of a CLI iteration when tool calls are disabled: back to the top
EndTurn ==
    /\ th["cli"].pc = "tools" /\ ~args.enable_tools
    /\ Upd("cli", [Returned(th["cli"]) EXCEPT !.pc = "top"])
    /\ UNCHANGED <<HISTORY, LAST, script, args, messages, kv_cache, last_image_path, interrupt,
                   run_lock, files, clock, seen, n>>

\* SIGINT: the KeyboardInterrupt handler sets the flag
SigInt ==
    /\ ~interrupt
    /\ interrupt' = TRUE
    /\ UNCHANGED <<HISTORY, LAST, script, args, messages, kv_cache, last_image_path, run_lock,
                   th, files, clock, seen, n>>

\* ------------------------------------------------------------- the ledger
\* HTTP statuses a POST can end with; -1 is _http_post_json's transport failure
Statuses == {200, 201, 204, 500, -1}

\* the append function of the running script, in memory
AppendDoc(content, image, record) ==
    IF script = "main" THEN AppendJsonDoc(content, image, record)
    ELSE AppendEntryDoc(content, image, record)

\* append function, first half: build the record (time.time() never runs
\* backwards), read the file, append in memory. __main__.py calls it under try/except; elsewhere an exception is
\* nobody's to catch
AeLoad(t) ==
    /\ th[t].pc = "ae_load"
    /\ \E now \in clock..MaxClock :
         LET rec == Record(now, th[t].user_prompt, th[t].reply_text)
             r == AppendDoc(files[th[t].json_path], last_image_path, rec)
         IN  /\ clock' = now
             /\ Upd(t, IF r.raised
                       THEN [th[t] EXCEPT
                               !.pc = IF script = "main"
                                      THEN (IF th[t].owl THEN "embed" ELSE "tools")
                                      ELSE Uncaught,
                               !.raised = TRUE, !.record = rec]
                       ELSE [th[t] EXCEPT !.pc = "ae_open", !.record = rec, !.doc = r.doc,
                                          !.old = files[th[t].json_path]])
    /\ UNCHANGED <<HISTORY, LAST, script, args, messages, kv_cache, last_image_path, interrupt,
                   run_lock, files, seen, n>>

\* a directory, as an entry of the file system
Directory == [t |-> "directory"]
\* os.path.dirname(path), with its final separator
ParentDir(path) == SubSeq(path, 1, RFind(path, {"/"}))
\* the directory is there: the working directory always is
DirExists(fs, d) == d = <<>> \/ (d \in DOMAIN fs /\ fs[d] = Directory)
\* _ensure_parent_dir(path): 'if d: os.makedirs(d, exist_ok=True)'
ensure_parent_dir(fs, path) ==
    IF ParentDir(path) = <<>> THEN fs
    ELSE [k \in DOMAIN fs \cup {ParentDir(path)} |->
            IF k = ParentDir(path) THEN Directory ELSE fs[k]]

\* open(json_path, "w"): the file is truncated; __main__.py's _append_json
\* creates the parent directory first, the other two scripts open the file
\* as it is and FileNotFoundError is raised when the directory is missing
AeOpen(t) ==
    /\ th[t].pc = "ae_open"
    /\ IF script = "main"
       THEN /\ files' = [ensure_parent_dir(files, th[t].json_path)
                           EXCEPT ![th[t].json_path] = Unparseable("empty")]
            /\ Upd(t, [th[t] EXCEPT !.pc = "ae_dump"])
       ELSE IF DirExists(files, ParentDir(th[t].json_path))
       THEN /\ files' = [files EXCEPT ![th[t].json_path] = Unparseable("empty")]
            /\ Upd(t, [th[t] EXCEPT !.pc = "ae_dump"])
       ELSE /\ files' = files
            /\ Upd(t, [th[t] EXCEPT !.pc = Uncaught, !.raised = TRUE])
    /\ UNCHANGED <<HISTORY, LAST, script, args, messages, kv_cache, last_image_path, interrupt,
                   run_lock, clock, seen, n>>

\* json.dump: a first part of the text reaches the file
AeChunk(t) ==
    /\ th[t].pc = "ae_dump"
    /\ files[th[t].json_path] = Unparseable("empty")
    /\ files' = [files EXCEPT ![th[t].json_path] = Unparseable("partial")]
    /\ UNCHANGED <<HISTORY, LAST, script, args, messages, kv_cache, last_image_path, interrupt,
                   run_lock, th, clock, seen, n>>

\* json.dump and close: the whole document is in the file
AeDump(t) ==
    /\ th[t].pc = "ae_dump"
    /\ files' = [files EXCEPT ![th[t].json_path] = th[t].doc]
    /\ n' = [n EXCEPT !.log = Append(@, [image |-> last_image_path,
                                         json_path |-> th[t].json_path,
                                         record |-> th[t].record])]
    /\ Upd(t, [th[t] EXCEPT !.pc = IF script = "http" THEN "ae_forward" ELSE AfterSave])
    /\ UNCHANGED <<HISTORY, LAST, script, args, messages, kv_cache, last_image_path, interrupt,
                   run_lock, clock, seen>>

\* the transient fields of the posted document
AttachmentFields == {"_image_basename", "_image_ext", "_image_b64"}
ImageBytes == <<"b", "6", "4">>
DotJpg == <<".", "j", "p", "g">>

\* out_doc with the three attachment fields, as _read_image_bytes names them
WithImage(doc, image) ==
    LET p == StripQuotes(image)
        path == IF IsUrl(p) THEN UrlPath(p) ELSE p
        b == IF Basename(path) = <<>> THEN ImageBase ELSE Basename(path)
        ext == IF ext_of(image) = <<>> THEN DotJpg ELSE ext_of(image)
        extra == [_image_basename |-> SplitExtRoot(b), _image_ext |-> ext,
                  _image_b64 |-> ImageBytes]
    IN  [doc EXCEPT !.top = [k \in DOMAIN doc.top \cup DOMAIN extra |->
                               IF k \in DOMAIN extra THEN extra[k] ELSE doc.top[k]]]

\* max_bytes of _read_image_bytes
max_bytes == 25 * 1024 * 1024

\* what is behind the image path or URL when the relay reads it: nothing
\* that can be opened, or a file or response body of some size
NoSource == [readable |-> FALSE, size |-> -1]
ImageSources ==
    {[readable |-> FALSE, size |-> 0]}
        \cup [readable : {TRUE}, size : {0, max_bytes, max_bytes + 1}]

\* _read_image_bytes without the size check
Mut_read_image_bytes(src) ==
    IF ~src.readable THEN 0
    ELSE IF src.size > max_bytes + 1 THEN max_bytes + 1 ELSE src.size

\* _read_image_bytes(path_or_url): the number of bytes it returns; it reads
\* at most max_bytes + 1 bytes and returns b"" on any failure, also when
\* more than max_bytes were read
read_image_bytes(src) ==
    IF ~src.readable THEN 0
    ELSE LET data == IF src.size > max_bytes + 1 THEN max_bytes + 1 ELSE src.size
         IN  IF data > max_bytes THEN 0 ELSE data

\* a relay that copies the document as it was loaded, before the append
MutAeForward(t) ==
    /\ th[t].pc = "ae_forward"
    /\ IF args.forward_url
       THEN \E src \in ImageSources :
              Upd(t, [th[t] EXCEPT !.pc = "ae_post", !.img_src = src,
                        !.out_doc = IF read_image_bytes(src) > 0
                                    THEN WithImage(th[t].old, last_image_path)
                                    ELSE th[t].old])
       ELSE Upd(t, [th[t] EXCEPT !.pc = AfterSave])
    /\ UNCHANGED <<HISTORY, LAST, script, args, messages, kv_cache, last_image_path, interrupt,
                   run_lock, files, clock, seen, n>>

\* 'if forward_url': copy the document, attach the image 'if img_bytes'
AeForward(t) ==
    /\ th[t].pc = "ae_forward"
    /\ IF args.forward_url
       THEN \E src \in ImageSources :
              Upd(t, [th[t] EXCEPT !.pc = "ae_post", !.img_src = src,
                        !.out_doc = IF read_image_bytes(src) > 0
                                    THEN WithImage(th[t].doc, last_image_path)
                                    ELSE th[t].doc])
       ELSE Upd(t, [th[t] EXCEPT !.pc = AfterSave])
    /\ UNCHANGED <<HISTORY, LAST, script, args, messages, kv_cache, last_image_path, interrupt,
                   run_lock, files, clock, seen, n>>

\* a relay that takes the local file back when the POST did not succeed
MutAePost(t) ==
    /\ th[t].pc = "ae_post"
    /\ \E status \in Statuses :
         /\ Upd(t, [th[t] EXCEPT !.pc = AfterSave, !.status = status,
                      !.img_src = NoSource])
         /\ files' = IF status \in {200, 201} THEN files
                     ELSE [files EXCEPT ![th[t].json_path] = th[t].old]
    /\ n' = [n EXCEPT !.posts = @ + 1]
    /\ UNCHANGED <<HISTORY, LAST, script, args, messages, kv_cache, last_image_path, interrupt,
                   run_lock, clock, seen>>

\* a relay that sends the document a second time when the POST failed
MutRetryAePost(t) ==
    /\ th[t].pc = "ae_post"
    /\ \E status \in Statuses :
         /\ Upd(t, [th[t] EXCEPT !.pc = AfterSave, !.status = status,
                      !.img_src = NoSource,
                      !.forward = IF status \in {200, 201} THEN "ok" ELSE "warn"])
         /\ n' = [n EXCEPT !.posts = IF status \in {200, 201} THEN @ + 1 ELSE @ + 2]
    /\ UNCHANGED <<HISTORY, LAST, script, args, messages, kv_cache, last_image_path, interrupt,
                   run_lock, files, clock, seen>>

\* _http_post_json(forward_url, out_doc, timeout=10.0): any status, or -1;
\* the outcome is printed as a success for 200 and 201, else as a warning
AePost(t) ==
    /\ th[t].pc = "ae_post"
    /\ \E status \in Statuses :
         Upd(t, [th[t] EXCEPT !.pc = AfterSave, !.status = status,
                   !.img_src = NoSource,
                   !.forward = IF status \in {200, 201} THEN "ok" ELSE "warn"])
    /\ n' = [n EXCEPT !.posts = @ + 1]
    /\ UNCHANGED <<HISTORY, LAST, script, args, messages, kv_cache, last_image_path, interrupt,
                   run_lock, files, clock, seen>>

\* a file cut short by a writer that has truncated it and not finished
Torn(c) == c \in {Unparseable("empty"), Unparseable("partial")}

NotRead == "nothing"

\* another process (the viewer, a second script) opens a ledger file and
\* loads it: it gets the document that is there, or a file cut short
ReadLedger ==
    /\ \E k \in Keys :
         /\ files[k] # Absent
         /\ seen' = IF Torn(files[k]) THEN "torn" ELSE "document"
    /\ UNCHANGED <<HISTORY, LAST, script, args, messages, kv_cache, last_image_path, interrupt,
                   run_lock, th, files, clock, n>>

\* ------------------------------------------------------------- the server
ReqIds == <<"r1", "r2", "r3">>
Requests == {ReqIds[i] : i \in 1..MaxRequests}

\* the JSON objects a client posts: a field is missing or null (None), blank,
\* or a text
Blank == <<" ">>
Bodies == [image_path : {None, Blank, ImgA}, question : {None, Blank, Question}]

\* describe() validating the body only after it has reset the session
MutDescribeRecv(t) ==
    /\ script = "http" /\ args.server /\ t \in Requests /\ th[t].pc = "idle"
    /\ \E body \in Bodies :
         LET image_path == Strip(body.image_path)
             question == Strip(body.question)
         IN  IF image_path = None
             THEN /\ Upd(t, [th[t] EXCEPT !.pc = "done", !.http = 400])
                  /\ HistReset
                  /\ last_image_path' = None
             ELSE /\ Upd(t, [th[t] EXCEPT !.pc = "lock", !.image_path = image_path,
                                          !.question = question])
                  /\ UNCHANGED <<messages, kv_cache, last_image_path>>
    /\ UNCHANGED <<HISTORY, LAST, script, args, interrupt, run_lock, files, clock, seen, n>>

\* describe(), before the lock: parse the body, answer 400 without image_path
DescribeRecv(t) ==
    /\ script = "http" /\ args.server /\ t \in Requests /\ th[t].pc = "idle"
    /\ \E body \in Bodies :
         LET image_path == Strip(body.image_path)   \* (body.get(...) or "").strip()
             question == Strip(body.question)
         IN  Upd(t, IF image_path = None
                    THEN [th[t] EXCEPT !.pc = "done", !.http = 400]
                    ELSE [th[t] EXCEPT !.pc = "lock", !.image_path = image_path,
                                       !.question = question])
    /\ UNCHANGED <<HISTORY, LAST, script, args, messages, kv_cache, last_image_path, interrupt,
                   run_lock, files, clock, seen, n>>

\* 'with _run_lock' entered without waiting for the lock to be free
MutDescribeAcquire(t) ==
    /\ th[t].pc = "lock"
    /\ run_lock' = t
    /\ HistReset
    /\ last_image_path' = None
    /\ Upd(t, [th[t] EXCEPT !.pc = "pup", !.step = 1,
                            !.user_prompt = th[t].image_path, !.generate = FALSE])
    /\ UNCHANGED <<HISTORY, LAST, script, args, interrupt, files, clock, seen, n>>

\* 'with _run_lock': take the lock, reset the session and the tracked image,
\* and call process_user_prompt(image_path, generate=False)
DescribeAcquire(t) ==
    /\ th[t].pc = "lock"
    /\ run_lock = "free"
    /\ run_lock' = t
    /\ HistReset
    /\ last_image_path' = None
    /\ Upd(t, [th[t] EXCEPT !.pc = "pup", !.step = 1,
                            !.user_prompt = th[t].image_path, !.generate = FALSE])
    /\ UNCHANGED <<HISTORY, LAST, script, args, interrupt, files, clock, seen, n>>

\* describe(), after a process_user_prompt call returned: the next call, or
\* the end of the with-block and the 200 response
DescribeStep(t) ==
    /\ th[t].pc = "describe"
    /\ CASE th[t].step = 1 ->
              /\ Upd(t, [Returned(th[t]) EXCEPT !.pc = "pup", !.step = 2,
                           !.user_prompt = AutoPrompt, !.generate = TRUE])
              /\ UNCHANGED run_lock
         [] th[t].step = 2 /\ th[t].question # None ->
              /\ Upd(t, [Returned(th[t]) EXCEPT !.pc = "pup", !.step = 3,
                           !.resp_describe = th[t].result,
                           !.user_prompt = th[t].question, !.generate = TRUE])
              /\ UNCHANGED run_lock
         [] th[t].step = 2 /\ th[t].question = None ->
              /\ Upd(t, [Idle EXCEPT !.pc = "done", !.http = 200,
                           !.image_path = th[t].image_path,
                           !.resp_describe = th[t].result])
              /\ run_lock' = "free"
         [] OTHER ->
              /\ Upd(t, [Idle EXCEPT !.pc = "done", !.http = 200,
                           !.image_path = th[t].image_path,
                           !.question = th[t].question,
                           !.resp_describe = th[t].resp_describe,
                           !.resp_question = th[t].result])
              /\ run_lock' = "free"
    /\ UNCHANGED <<HISTORY, LAST, script, args, messages, kv_cache, last_image_path, interrupt,
                   files, clock, seen, n>>

\* an exception that leaves describe() with the lock still held
MutDescribeFail(t) ==
    /\ th[t].pc = "http500"
    /\ Upd(t, [Idle EXCEPT !.pc = "done", !.http = 500])
    /\ UNCHANGED <<HISTORY, LAST, script, args, messages, kv_cache, last_image_path, interrupt,
                   run_lock, files, clock, seen, n>>

\* an exception leaves the with-block (the lock is released) and Flask
\* answers 500
DescribeFail(t) ==
    /\ th[t].pc = "http500"
    /\ run_lock' = "free"
    /\ Upd(t, [Idle EXCEPT !.pc = "done", !.http = 500])
    /\ UNCHANGED <<HISTORY, LAST, script, args, messages, kv_cache, last_image_path, interrupt,
                   files, clock, seen, n>>

\* --------------------------------------------------------- specifications
\* model.config.max_length - args.max_new_tokens, when no turn is dropped
max_length == 64

ArgSets(server, streaming, save, forward, system, embed) ==
    [server : server, disable_streaming : streaming, save_json_by_image : save,
     forward_url : forward, system_prompt : system, has_embed : embed,
     enable_tools : {FALSE}, owl_from_image : {FALSE}, max_tokens : {max_length}]

InitSession ==
    /\ messages = IF args.system_prompt
                  THEN <<Turn("system", SystemPrompt, "init")>> ELSE <<>>
    /\ kv_cache = Cold
    /\ last_image_path = None
    /\ interrupt = FALSE
    /\ run_lock = "free"
    /\ clock = 0
    /\ seen = NotRead
    /\ n = [prompts |-> 0, fragments |-> 0, posts |-> 0, log |-> <<>>]
    /\ HISTORY = <<>>
    /\ LAST = NoLast

CliThreads == [t \in Threads |-> IF t = "cli" THEN [Idle EXCEPT !.pc = "top"] ELSE Idle]

\* the session without the ledger: the three CLI loops with streaming
\* generation, interrupts and failures, and the /describe server
InitChat ==
    /\ script \in {"http", "tj", "main"}
    /\ args \in ArgSets(BOOLEAN, BOOLEAN, {FALSE}, {FALSE}, BOOLEAN, BOOLEAN)
    /\ args.server => script = "http" /\ args.disable_streaming
    /\ InitSession
    /\ th = IF args.server THEN [t \in Threads |-> Idle] ELSE CliThreads
    /\ files = [k \in Keys |-> Absent]

ChatInputs == {Hi, ResetText}

NextChat ==
    \/ CliTopHttp(ChatInputs) \/ CliTopTj(ChatInputs) \/ CliTopMain(ChatInputs)
    \/ CliExit \/ EndTurn \/ SigInt
    \/ \E t \in {"cli"} \cup Requests :
         \/ DescribeRecv(t) \/ DescribeAcquire(t) \/ DescribeStep(t)
         \/ ProcessUserPrompt(t) \/ EmbedChat(t)
         \/ GenerateOk(t, Replies) \/ GenerateRaises(t)
         \/ Pull(t, Fragments) \/ StreamEnd(t)
         \/ AppendBot(t) \/ SaveJson(t)

SpecChat == InitChat /\ [][NextChat]_vars

\* the /describe server: concurrent requests, the ledger and the relay
InitServer ==
    /\ script = "http"
    /\ args \in ArgSets({TRUE}, {TRUE}, BOOLEAN, BOOLEAN, {FALSE}, {TRUE})
    /\ args.forward_url => args.save_json_by_image
    /\ InitSession
    /\ th = [t \in Threads |-> Idle]
    /\ files \in [Keys -> {Absent, JObject(EmptyTop, ENotList)}]
    /\ files[json_path_for_image(ImgUrl)] = Absent

\* the steps of the request thread t
ServerStep(t) ==
    \/ DescribeRecv(t) \/ DescribeAcquire(t) \/ DescribeStep(t) \/ DescribeFail(t)
    \/ ProcessUserPrompt(t) \/ EmbedChat(t)
    \/ GenerateOk(t, PlainReplies) \/ GenerateRaises(t)
    \/ AppendBot(t) \/ SaveJson(t)
    \/ AeLoad(t) \/ AeOpen(t) \/ AeChunk(t) \/ AeDump(t)
    \/ AeForward(t) \/ AePost(t)

NextServer == \E t \in Requests : ServerStep(t)

SpecServer == InitServer /\ [][NextServer]_vars

\* the server without a relay, with the ledger off or over a malformed
\* ledger document, on which the append raises
InitLock ==
    /\ script = "http"
    /\ args \in ArgSets({TRUE}, {TRUE}, BOOLEAN, {FALSE}, {FALSE}, {TRUE})
    /\ InitSession
    /\ th = [t \in Threads |-> Idle]
    /\ files = [k \in Keys |-> IF k = json_path_for_image(ImgA)
                                THEN JObject(EmptyTop, ENotList) ELSE Absent]

\* the steps of the request thread t
LockStep(t) ==
    \/ DescribeRecv(t) \/ DescribeAcquire(t) \/ DescribeStep(t) \/ DescribeFail(t)
    \/ ProcessUserPrompt(t) \/ EmbedChat(t)
    \/ GenerateOk(t, PlainReplies) \/ GenerateRaises(t)
    \/ AppendBot(t) \/ SaveJson(t)
    \/ AeLoad(t)

NextLock == \E t \in Requests : LockStep(t)

\* the request threads keep running: a thread that can take a step takes
\* one (every backend call returns or raises, and a waiting thread gets the
\* lock once it stays free)
SpecLock ==
    InitLock /\ [][NextLock]_vars /\ \A t \in Requests : WF_vars(LockStep(t))

\* what a ledger file can hold when a script starts
OldRecord == Record(0, Hi, <<"o", "l", "d">>)
LegacyTop == [foo |-> <<"1">>]
InitialContents ==
    { Absent, Unparseable("corrupt"), JScalar,
      JString(FALSE), JString(TRUE), JArray(FALSE), JArray(TRUE),
      JObject(LegacyTop, EMissing), JObject(LegacyTop, ENotList),
      FreshDoc(ImgA), JObject(LegacyTop, EList(<<OldRecord>>)) }

\* the CLI loops with ledger saving, over every kind of existing file
InitLedger ==
    /\ script \in {"http", "tj", "main"}
    /\ args \in ArgSets({FALSE}, {TRUE}, {TRUE}, BOOLEAN, {FALSE}, {TRUE})
    /\ args.forward_url => script = "http"
    /\ InitSession
    /\ th = CliThreads
    /\ files \in [Keys -> InitialContents]
    /\ files[json_path_for_image(ImgUrl)] = Absent

LedgerInputs == {ImgA, ImgPng, Hi}

NextLedger ==
    \/ CliTopHttp(LedgerInputs) \/ CliTopTj(LedgerInputs) \/ CliTopMain(LedgerInputs)
    \/ CliExit
    \/ ProcessUserPrompt("cli") \/ EmbedChat("cli") \/ GenerateOk("cli", Replies)
    \/ AppendBot("cli") \/ SaveJson("cli")
    \/ AeLoad("cli") \/ AeOpen("cli") \/ AeChunk("cli") \/ AeDump("cli")
    \/ AeForward("cli") \/ AePost("cli")
    \/ EndTurn \/ ReadLedger

SpecLedger == InitLedger /\ [][NextLedger]_vars

\* the CLI loops saving to a new ledger, with generations that fail and with
\* tool calls on or off
InitMirror ==
    /\ script \in {"http", "tj", "main"}
    /\ \E a \in ArgSets({FALSE}, {TRUE}, {TRUE}, {FALSE}, {FALSE}, {TRUE}) :
          \E tools \in BOOLEAN : args = [a EXCEPT !.enable_tools = tools]
    /\ InitSession
    /\ th = CliThreads
    /\ files = [k \in Keys |-> Absent]

MirrorInputs == {ImgA, Hi}

NextMirror ==
    \/ CliTopHttp(MirrorInputs) \/ CliTopTj(MirrorInputs) \/ CliTopMain(MirrorInputs)
    \/ CliExit
    \/ ProcessUserPrompt("cli") \/ EmbedChat("cli")
    \/ GenerateOk("cli", Replies) \/ GenerateRaises("cli")
    \/ AppendBot("cli") \/ SaveJson("cli")
    \/ AeLoad("cli") \/ AeOpen("cli") \/ AeChunk("cli") \/ AeDump("cli")
    \/ AeForward("cli")
    \/ EndTurn \/ RunTools

SpecMirror == InitMirror /\ [][NextMirror]_vars

\* ---------------------------------------------------------------- receiver
\* SAVE_DIR of the receiver, created when the module is loaded
SAVE_DIR == <<"i", "n", "g", "e", "s", "t", "e", "d", "/">>
\* text that base64.b64decode(validate=True) rejects
BadB64 == <<"!">>
ImageFile(raw) == [t |-> "image", raw |-> raw]
\* dict.get(k, default) and the dict without the keys ks
Get(f, k, default) == IF k \in DOMAIN f THEN f[k] ELSE default
Drop(f, ks) == [k \in DOMAIN f \ ks |-> f[k]]

DigitText == <<"0", "1", "2", "3", "4", "5", "6", "7", "8", "9">>
\* f"image_{int(time.time())}"
Stamp(now) == ImageBase \o <<"_", DigitText[now + 1]>>

\* _safe_basename_from_image_path(img_path)
safe_basename_from_image_path(img_path, now) ==
    LET base == SplitExtRoot(Basename(Strip(img_path)))
    IN  IF base # <<>> THEN base ELSE Stamp(now)

\* open(path, "w") under SAVE_DIR works when the name has no directory part:
\* SAVE_DIR has no subdirectories
CanOpen(name) == Find(name, {"/"}) = 0

\* ingest() that stores the body as it was received
Mut_ingest(body, fs, now) ==
    IF body.t # "object"
    THEN [files |-> fs, response |-> [NoResponse EXCEPT !.status = 400]]
    ELSE
    LET img_b64 == Get(body.top, "_image_b64", None)
        popped == Get(body.top, "_image_basename", None)
        img_ext == IF Get(body.top, "_image_ext", DotJpg) = <<>>
                   THEN DotJpg ELSE Get(body.top, "_image_ext", DotJpg)
        doc == body
        img_base == IF popped = <<>>
                    THEN safe_basename_from_image_path(
                             Get(doc.top, "image_path", None), now)
                    ELSE popped
        json_path == SAVE_DIR \o img_base \o DotJson
        ext_lower == Lower(img_ext)
        img_path == SAVE_DIR \o img_base
                      \o (IF ext_lower \in {DotJpg, <<".", "j", "p", "e", "g">>}
                          THEN DotJpg ELSE ext_lower)
        wrote == [k \in DOMAIN fs \cup {json_path} |->
                    IF k = json_path THEN doc ELSE fs[k]]
    IN  IF ~CanOpen(img_base)
        THEN [files |-> fs, response |-> [NoResponse EXCEPT !.status = 500]]
        ELSE IF Strip(img_b64) = <<>>
        THEN [files |-> wrote,
              response |-> [NoResponse EXCEPT !.status = 200, !.ok = TRUE,
                                              !.json = json_path]]
        ELSE IF img_b64 = BadB64
        THEN [files |-> wrote,
              response |-> [NoResponse EXCEPT !.status = 200, !.ok = TRUE,
                                              !.json = json_path,
                                              !.image_error = TRUE]]
        ELSE [files |-> [k \in DOMAIN wrote \cup {img_path} |->
                           IF k = img_path THEN ImageFile(img_b64) ELSE wrote[k]],
              response |-> [NoResponse EXCEPT !.status = 200, !.ok = TRUE,
                                              !.json = json_path,
                                              !.image = img_path]]

\* ingest(): the receiver's files and its response for one request body, at
\* time 'now'; a body that is not JSON or not an object is answered 400, an
\* exception of the JSON write is answered 500 by Flask
ingest(body, fs, now) ==
    IF body.t # "object"
    THEN [files |-> fs, response |-> [NoResponse EXCEPT !.status = 400]]
    ELSE
    LET img_b64 == Get(body.top, "_image_b64", None)
        popped == Get(body.top, "_image_basename", None)
        img_ext == IF Get(body.top, "_image_ext", DotJpg) = <<>>
                   THEN DotJpg ELSE Get(body.top, "_image_ext", DotJpg)
        doc == [body EXCEPT !.top = Drop(body.top, AttachmentFields)]
        img_base == IF popped = <<>>
                    THEN safe_basename_from_image_path(
                             Get(doc.top, "image_path", None), now)
                    ELSE popped
        json_path == SAVE_DIR \o img_base \o DotJson
        ext_lower == Lower(img_ext)
        img_path == SAVE_DIR \o img_base
                      \o (IF ext_lower \in {DotJpg, <<".", "j", "p", "e", "g">>}
                          THEN DotJpg ELSE ext_lower)
        wrote == [k \in DOMAIN fs \cup {json_path} |->
                    IF k = json_path THEN doc ELSE fs[k]]
    IN  IF ~CanOpen(img_base)
        THEN [files |-> fs, response |-> [NoResponse EXCEPT !.status = 500]]
        ELSE IF Strip(img_b64) = <<>>
        THEN [files |-> wrote,
              response |-> [NoResponse EXCEPT !.status = 200, !.ok = TRUE,
                                              !.json = json_path]]
        ELSE IF img_b64 = BadB64
        THEN [files |-> wrote,
              response |-> [NoResponse EXCEPT !.status = 200, !.ok = TRUE,
                                              !.json = json_path,
                                              !.image_error = TRUE]]
        ELSE [files |-> [k \in DOMAIN wrote \cup {img_path} |->
                           IF k = img_path THEN ImageFile(img_b64) ELSE wrote[k]],
              response |-> [NoResponse EXCEPT !.status = 200, !.ok = TRUE,
                                              !.json = json_path,
                                              !.image = img_path]]

\* the receiver serves its requests one after the other: the next handler
NextHandler(r) ==
    \E i \in 1..MaxRequests :
        /\ r = ReqIds[i] /\ th[r].pc = "idle"
        /\ \A j \in 1..(i - 1) : th[ReqIds[j]].pc # "idle"

\* a field the posted object does not have
Missing == <<"-">>
DotJpegUpper == <<".", "J", "P", "E", "G">>
DotPng == <<".", "p", "n", "g">>
DirName == <<"d", "/", "x">>
\* the objects a client posts to /ingest, by their fields: the attachment
\* (absent, blank, base64 text, text that is not base64), its basename
\* (absent, empty, a name, a name with a directory part), its extension, and
\* the document's image_path
IngestParts ==
    { p \in [b64 : {Missing, Blank, ImageBytes, BadB64},
             base : {Missing, None, <<"a">>, DirName},
             ext : {Missing, None, DotJpegUpper, DotPng},
             image_path : {Missing, Blank, ImgPng}] :
        /\ p.b64 # ImageBytes => p.ext = Missing
        /\ p.base \in {<<"a">>, DirName} => p.image_path = Missing }
IngestObject(p) ==
    LET all == [_image_b64 |-> p.b64, _image_basename |-> p.base,
                _image_ext |-> p.ext, image_path |-> p.image_path]
    IN  JObject([k \in {f \in DOMAIN all : all[f] # Missing} |-> all[k]], EMissing)
\* the request bodies of /ingest: not JSON, JSON that is not an object, objects
IngestBodies ==
    {Unparseable("corrupt"), JScalar, JString(FALSE), JArray(FALSE)}
        \cup {IngestObject(p) : p \in IngestParts}

\* POST /ingest handled by the receiver
IngestRequest(r) ==
    /\ NextHandler(r)
    /\ \E body \in IngestBodies, now \in 0..MaxClock :
         LET o == ingest(body, files, now) IN
         /\ files' = o.files
         /\ Upd(r, [th[r] EXCEPT !.pc = "ingested", !.body = body,
                                 !.response = o.response])
    /\ UNCHANGED <<HISTORY, LAST, script, args, messages, kv_cache, last_image_path, interrupt,
                   run_lock, clock, seen, n>>

\* the receiver alone, with no file saved yet
InitReceiver ==
    /\ script = "receiver"
    /\ args \in ArgSets({FALSE}, {TRUE}, {FALSE}, {FALSE}, {FALSE}, {FALSE})
    /\ InitSession
    /\ th = [t \in Threads |-> Idle]
    /\ files = [k \in {} |-> Absent]

NextReceiver == \E r \in Requests : IngestRequest(r)

SpecReceiver == InitReceiver /\ [][NextReceiver]_vars

\* _http_post_json to the /ingest of this repository's receiver: the request
\* does not arrive (-1), or the receiver handles it and its status comes back
RelayPost(t) ==
    /\ th[t].pc = "ae_post"
    /\ \/ /\ th' = [th EXCEPT ![t] = [@ EXCEPT !.pc = AfterSave, !.status = -1,
                                          !.img_src = NoSource, !.forward = "warn"]]
          /\ UNCHANGED files
       \/ \E r \in Requests, now \in 0..MaxClock :
            LET o == ingest(th[t].out_doc, files, now) IN
            /\ NextHandler(r)
            /\ files' = o.files
            /\ th' = [th EXCEPT
                        ![t] = [@ EXCEPT !.pc = AfterSave,
                                  !.status = o.response.status,
                                  !.img_src = NoSource,
                                  !.forward = IF o.response.status \in {200, 201}
                                              THEN "ok" ELSE "warn"],
                        ![r] = [@ EXCEPT !.pc = "ingested",
                                  !.body = th[t].out_doc,
                                  !.response = o.response]]
    /\ n' = [n EXCEPT !.posts = @ + 1]
    /\ UNCHANGED <<HISTORY, LAST, script, args, messages, kv_cache, last_image_path, interrupt,
                   run_lock, clock, seen>>

\* the http CLI loop saving ledgers and forwarding them to the receiver
InitRelay ==
    /\ script = "http"
    /\ args \in ArgSets({FALSE}, {TRUE}, {TRUE}, {TRUE}, {FALSE}, {TRUE})
    /\ InitSession
    /\ th = CliThreads
    /\ files = [k \in Keys |-> Absent]

RelayInputs == {ImgA, ImgUrl, Hi}

NextRelay ==
    \/ CliTopHttp(RelayInputs) \/ CliExit
    \/ ProcessUserPrompt("cli") \/ EmbedChat("cli") \/ GenerateOk("cli", PlainReplies)
    \/ AppendBot("cli") \/ SaveJson("cli")
    \/ AeLoad("cli") \/ AeOpen("cli") \/ AeChunk("cli") \/ AeDump("cli")
    \/ AeForward("cli") \/ RelayPost("cli")
    \/ EndTurn

SpecRelay == InitRelay /\ [][NextRelay]_vars

\* an image in a directory, and its ledger key
ImgDir == <<"d", "/", "a", ".", "j", "p", "g">>
DirD == ParentDir(ImgDir)
\* the CLI loops with ledger saving, for an image whose directory is there
\* or not when the ledger is written
InitDir ==
    /\ script \in {"http", "tj", "main"}
    /\ args \in ArgSets({FALSE}, {TRUE}, {TRUE}, {FALSE}, BOOLEAN, {TRUE})
    /\ InitSession
    /\ th = CliThreads
    /\ files \in [{DirD, json_path_for_image(ImgDir)} ->
                     {Absent, Directory, FreshDoc(ImgDir)}]
    /\ files[DirD] \in {Absent, Directory}
    /\ files[json_path_for_image(ImgDir)] \in
           IF files[DirD] = Absent THEN {Absent} ELSE {Absent, FreshDoc(ImgDir)}

DirInputs == {ImgDir, Hi}

NextDir ==
    \/ CliTopHttp(DirInputs) \/ CliTopTj(DirInputs) \/ CliTopMain(DirInputs)
    \/ CliExit
    \/ ProcessUserPrompt("cli") \/ EmbedChat("cli") \/ GenerateOk("cli", Replies)
    \/ AppendBot("cli") \/ SaveJson("cli")
    \/ AeLoad("cli") \/ AeOpen("cli") \/ AeChunk("cli") \/ AeDump("cli")
    \/ AeForward("cli")
    \/ EndTurn

SpecDir == InitDir /\ [][NextDir]_vars

\* budgets below, at and above the cost of the system turn and of a prompt
Budgets == {0, 2, 4, max_length}
\* the CLI loops with blocking generation under a token budget
InitWindow ==
    /\ script \in {"http", "tj", "main"}
    /\ \E a \in ArgSets({FALSE}, {TRUE}, {FALSE}, {FALSE}, BOOLEAN, {TRUE}),
          B \in Budgets : args = [a EXCEPT !.max_tokens = B]
    /\ InitSession
    /\ th = CliThreads
    /\ files = [k \in Keys |-> Absent]

WindowInputs == {Hi, ImgA}

NextWindow ==
    \/ CliTopHttp(WindowInputs) \/ CliTopTj(WindowInputs) \/ CliTopMain(WindowInputs)
    \/ CliExit
    \/ ProcessUserPrompt("cli") \/ EmbedChat("cli") \/ GenerateOk("cli", PlainReplies)
    \/ AppendBot("cli") \/ SaveJson("cli")
    \/ EndTurn

SpecWindow == InitWindow /\ [][NextWindow]_vars

\* the CLI loops of the http and tj scripts with tool calls enabled
InitTools ==
    /\ script \in {"http", "tj"}
    /\ \E a \in ArgSets({FALSE}, {TRUE}, {TRUE}, {FALSE}, BOOLEAN, {TRUE}) :
          args = [a EXCEPT !.enable_tools = TRUE]
    /\ InitSession
    /\ th = CliThreads
    /\ files = [k \in Keys |-> Absent]

ToolsInputs == {Hi, ImgA, ResetText}

NextTools ==
    \/ CliTopHttp(ToolsInputs) \/ CliTopTj(ToolsInputs)
    \/ CliExit
    \/ ProcessUserPrompt("cli") \/ EmbedChat("cli") \/ GenerateOk("cli", PlainReplies)
    \/ AppendBot("cli") \/ SaveJson("cli")
    \/ AeLoad("cli") \/ AeOpen("cli") \/ AeChunk("cli") \/ AeDump("cli")
    \/ AeForward("cli")
    \/ RunTools

SpecTools == InitTools /\ [][NextTools]_vars

\* the same loops, which never stop while they have a step to take ('while
\* True' on a thread of its own)
SpecToolsLive == SpecTools /\ WF_vars(NextTools)

\* __main__.py with --owl-from-image, over every kind of existing ledger
InitOwl ==
    /\ script = "main"
    /\ \E a \in ArgSets({FALSE}, {TRUE}, BOOLEAN, {FALSE}, BOOLEAN, {TRUE}) :
          args = [a EXCEPT !.owl_from_image = TRUE]
    /\ InitSession
    /\ th = CliThreads
    /\ files \in [Keys -> InitialContents]
    /\ files[json_path_for_image(ImgUrl)] = Absent

OwlInputs == {ImgA, Hi}

NextOwl ==
    \/ CliTopMain(OwlInputs) \/ CliExit
    \/ OwlRun("cli", Replies) \/ OwlAppend("cli")
    \/ EmbedChat("cli") \/ GenerateOk("cli", Replies)
    \/ AppendBot("cli") \/ SaveJson("cli")
    \/ AeLoad("cli") \/ AeOpen("cli") \/ AeChunk("cli") \/ AeDump("cli")
    \/ EndTurn

SpecOwl == InitOwl /\ [][NextOwl]_vars

\* the inputs of _json_path_for_image, by their parts: surrounding blanks
\* or quotes, a URL prefix, directories, the file's stem and extension, and a
\* query string (URLs only); a URL may have no basename at all
HostUrl == HTTP \o <<"h", "/">>
HostUrlUpper == <<"H", "T", "T", "P", "S", ":", "/", "/", "h", "/">>
KeyParts ==
    { p \in [wrap : {<<>>, <<" ">>, <<"'">>, <<"\"">>},
             scheme : {<<>>, HostUrl, HostUrlUpper},
             dir : {<<>>, <<"d", "/">>},
             stem : {<<>>, <<"c", "a", "t">>, <<"a", ".", "b">>},
             ext : {<<>>, DotJpg, <<".", "P", "N", "G">>},
             query : {<<>>, <<"?", "q", "=", "x", ".", "y">>}] :
        /\ p.scheme = <<>> => p.query = <<>> /\ p.stem # <<>>
        /\ p.stem = <<>> => p.ext = <<>>
        /\ p.stem = <<"a", ".", "b">> => p.ext # <<>> }
KeyInput(p) == p.wrap \o p.scheme \o p.dir \o p.stem \o p.ext \o p.query \o p.wrap

\* the key derivation on its own, over every input and with or without a
\* ledger file already at the key
InitKey ==
    /\ script \in {"http", "tj", "main"}
    /\ args \in ArgSets({FALSE}, {TRUE}, {TRUE}, {FALSE}, {FALSE}, {TRUE})
    /\ InitSession
    /\ th = [t \in Threads |-> IF t = "cli" THEN [Idle EXCEPT !.pc = "key"] ELSE Idle]
    /\ files \in [Keys -> {Absent, FreshDoc(ImgA)}]

\* the session's image becomes one of the inputs
KeySetImage ==
    /\ th["cli"].pc = "key" /\ last_image_path = None
    /\ \E p \in KeyParts : last_image_path' = KeyInput(p)
    /\ UNCHANGED <<HISTORY, LAST, script, args, messages, kv_cache, interrupt, run_lock, th,
                   files, clock, seen, n>>

\* json_path = _json_path_for_image(last_image_path), any number of times
KeyDerive ==
    /\ th["cli"].pc = "key" /\ last_image_path # None
    /\ n.prompts < MaxPrompts
    /\ n' = [n EXCEPT !.prompts = @ + 1]
    /\ Upd("cli", [th["cli"] EXCEPT
                     !.json_path = json_path_for_image(last_image_path)])
    /\ UNCHANGED <<HISTORY, LAST, script, args, messages, kv_cache, last_image_path, interrupt,
                   run_lock, files, clock, seen>>

NextKey == KeySetImage \/ KeyDerive

SpecKey == InitKey /\ [][NextKey]_vars

\* ------------------------------------------------------------------ viewer
\* JSON values as the viewer tests them: a key that is missing (None), a
\* value that is no string, a string, a list, a dict with its "response"
VMissing == [k |-> "missing"]
VNumber == [k |-> "number"]
VStr(text) == [k |-> "str", s |-> text]
VList(v) == [k |-> "list", v |-> v]
VDict(response) == [k |-> "dict", response |-> response]

\* "(no textual description found in JSON)"
Placeholder == <<"(", "n", "o", "n", "e", ")">>

\* the keys tried last, in the order of the for loop
FallbackKeys == <<"description", "caption", "summary", "output", "response">>

\* isinstance(v, str) and v.strip()
NonBlank(v) == v.k = "str" /\ Strip(v.s) # <<>>
\* v.strip().replace("</s>", "").strip()
CleanText(v) == Strip(RemoveEOS(Strip(v.s)))

\* entries[0].get("response") under try/except: None when entries is no
\* list, is empty, or its first element is no dict
FirstResponse(doc) ==
    IF doc.entries.k = "list" /\ Len(doc.entries.v) > 0
           /\ doc.entries.v[1].k = "dict"
    THEN doc.entries.v[1].response ELSE VMissing

\* the fallback keys that hold a non-blank string
Hits(doc) == {i \in 1..Len(FallbackKeys) : NonBlank(doc[FallbackKeys[i]])}
FirstHit(doc) == CHOOSE i \in Hits(doc) : \A j \in Hits(doc) : i <= j

\* _extract_text that looks at response_describe before the entries
Mut_extract_text(doc) ==
    IF NonBlank(doc.response_describe) THEN CleanText(doc.response_describe)
    ELSE IF NonBlank(FirstResponse(doc)) THEN CleanText(FirstResponse(doc))
    ELSE IF Hits(doc) # {} THEN CleanText(doc[FallbackKeys[FirstHit(doc)]])
    ELSE Placeholder

\* _extract_text(doc)
extract_text(doc) ==
    IF NonBlank(FirstResponse(doc)) THEN CleanText(FirstResponse(doc))
    ELSE IF NonBlank(doc.response_describe) THEN CleanText(doc.response_describe)
    ELSE IF Hits(doc) # {} THEN CleanText(doc[FallbackKeys[FirstHit(doc)]])
    ELSE Placeholder

\* the texts of the documents, one per place so that the place shows
ViewText(tag) == <<" ", tag>> \o EOS \o <<"\n">>
\* what a key of the document can hold
ViewValues(tag) == {VMissing, VStr(Blank), VStr(ViewText(tag))}
\* the documents next to the images: every shape of entries, and the other
\* keys missing, blank, no string, or a text
ViewDocs ==
    [entries : {VMissing, VNumber, VList(<<>>), VList(<<VNumber>>),
                VList(<<VDict(VStr(ViewText("l"))), VNumber>>)}
               \cup {VList(<<VDict(v), VDict(VStr(ViewText("l")))>>) :
                        v \in ViewValues("e") \cup {VNumber, VStr(EOS)}},
     response_describe : ViewValues("d") \cup {VNumber},
     description : ViewValues("1"), caption : ViewValues("2"),
     summary : {VMissing, VStr(ViewText("3"))},
     output : {VMissing, VStr(ViewText("4"))},
     response : ViewValues("5")]

\* the viewer on its own, about to list an item
InitViewer ==
    /\ script = "viewer"
    /\ args \in ArgSets({FALSE}, {TRUE}, {FALSE}, {FALSE}, {FALSE}, {FALSE})
    /\ InitSession
    /\ th = [t \in Threads |-> IF t = "cli" THEN [Idle EXCEPT !.pc = "view"] ELSE Idle]
    /\ files = [k \in Keys |-> Absent]

\* _collect_items: the JSON next to an image is loaded
ViewLoad ==
    /\ th["cli"].pc = "view"
    /\ \E doc \in ViewDocs :
         Upd("cli", [th["cli"] EXCEPT !.pc = "extract", !.body = doc])
    /\ UNCHANGED <<HISTORY, LAST, script, args, messages, kv_cache, last_image_path, interrupt,
                   run_lock, files, clock, seen, n>>

\* text = _extract_text(doc)
ViewExtract ==
    /\ th["cli"].pc = "extract"
    /\ Upd("cli", [th["cli"] EXCEPT !.pc = "shown",
                                    !.result = extract_text(th["cli"].body)])
    /\ UNCHANGED <<HISTORY, LAST, script, args, messages, kv_cache, last_image_path, interrupt,
                   run_lock, files, clock, seen, n>>

NextViewer == ViewLoad \/ ViewExtract

SpecViewer == InitViewer /\ [][NextViewer]_vars

\* ------------------------------------------------------- the comm manager
\* HISTORY = deque(maxlen=200)
maxlen == 200
\* --forward-retries, default 3
forward_retries == 3

Yo == <<"y", "o">>
Old == <<"o", "l", "d">>
PromptList == <<Hi>>

\* deque.appendleft under maxlen: the new record is first, and the oldest is
\* discarded when the deque is full
appendleft(d, x) ==
    LET s == <<x>> \o d
    IN  IF Len(s) > maxlen THEN SubSeq(s, 1, maxlen) ELSE s

VilaRecord(ts, text) == [src |-> "vila", ts |-> ts, text |-> text]
Jetson2Record(ts, prompts) == [src |-> "jetson2", ts |-> ts, prompts |-> prompts]

\* a deque of k records the manager recorded a while ago
Recorded(k) == [i \in 1..k |-> VilaRecord(0, Old)]

\* what one _http_post_json call to Jetson-2 can return: a status (-1 for a
\* timeout or a refused connection) and the prompts parsed out of its body
PostOutcomes ==
    {[status |-> 200, prompts |-> PromptList], [status |-> 200, prompts |-> <<>>],
     [status |-> 500, prompts |-> <<>>], [status |-> -1, prompts |-> <<>>]}

\* the bodies POSTed to /from_vila
CommBodies == {Hi, <<" ">> \o Yo, Blank}

\* the manager as it serves: a deque that is empty, nearly full or full,
\* LAST agreeing with it, and the request threads of the threaded server
InitComm ==
    /\ script = "comm"
    /\ args \in [jetson2_endpoint : BOOLEAN, forward_retries : {forward_retries}]
    /\ messages = <<>>
    /\ kv_cache = Cold
    /\ last_image_path = None
    /\ interrupt = FALSE
    /\ run_lock = "free"
    /\ clock = 0
    /\ seen = NotRead
    /\ n = [prompts |-> 0, fragments |-> 0, posts |-> 0, log |-> <<>>]
    /\ th = [t \in Threads |-> Idle]
    /\ files = [k \in {} |-> Absent]
    /\ \E k \in {0, maxlen - 1, maxlen} :
         /\ HISTORY = Recorded(k)
         /\ LAST = IF k = 0 THEN NoLast
                   ELSE [NoLast EXCEPT !.vila_caption = [ts |-> 0, text |-> Old]]

\* from_vila, lines 42-46: the caption is read and stripped; an empty one is
\* answered 400, any other gets its timestamp
FvRead(r) ==
    /\ th[r].pc = "idle"
    /\ \E raw \in CommBodies : \E now \in clock..MaxClock :
         LET caption == Strip(raw)
         IN  IF caption = <<>>
             THEN /\ Upd(r, [th[r] EXCEPT !.pc = "done", !.http = 400,
                                          !.caption = caption])
                  /\ clock' = clock
             ELSE /\ Upd(r, [th[r] EXCEPT !.pc = "fv_last", !.caption = caption,
                                          !.ts = now])
                  /\ clock' = now
    /\ UNCHANGED <<HISTORY, LAST, script, args, messages, kv_cache, last_image_path,
                   interrupt, run_lock, files, seen, n>>

\* line 48: LAST["vila_caption"] = {"ts": ts, "text": caption}
FvLast(r) ==
    /\ th[r].pc = "fv_last"
    /\ LAST' = [LAST EXCEPT !.vila_caption = [ts |-> th[r].ts, text |-> th[r].caption]]
    /\ Upd(r, [th[r] EXCEPT !.pc = "fv_hist"])
    /\ UNCHANGED <<HISTORY, script, args, messages, kv_cache, last_image_path,
                   interrupt, run_lock, files, clock, seen, n>>

\* line 49: HISTORY.appendleft({"src": "vila", ...}); without an endpoint the
\* handler answers at once
FvHist(r) ==
    /\ th[r].pc = "fv_hist"
    /\ HISTORY' = appendleft(HISTORY, VilaRecord(th[r].ts, th[r].caption))
    /\ Upd(r, IF args.jetson2_endpoint
              THEN [th[r] EXCEPT !.pc = "fv_post"]
              ELSE [th[r] EXCEPT !.pc = "done", !.http = 200])
    /\ UNCHANGED <<LAST, script, args, messages, kv_cache, last_image_path,
                   interrupt, run_lock, files, clock, seen, n>>

\* lines 53-61: the one call of _http_post_json and the parse of its body
FvPost(r) ==
    /\ th[r].pc = "fv_post"
    /\ \E o \in PostOutcomes :
         Upd(r, [th[r] EXCEPT !.pc = "fv_record", !.f_status = o.status,
                              !.prompts = o.prompts,
                              !.attempts = th[r].attempts + 1])
    /\ n' = [n EXCEPT !.posts = n.posts + 1]
    /\ UNCHANGED <<HISTORY, LAST, script, args, messages, kv_cache, last_image_path,
                   interrupt, run_lock, files, clock, seen>>

\* lines 63-69: the status is remembered, the prompts (when there are any)
\* are remembered and recorded, and the request is answered
FvRecord(r) ==
    /\ th[r].pc = "fv_record"
    /\ \E now \in clock..MaxClock :
         /\ clock' = now
         /\ LAST' = [LAST EXCEPT
                       !.last_forward_status = [status |-> th[r].f_status],
                       !.jetson2_prompts =
                           IF th[r].prompts # <<>>
                           THEN [ts |-> now, prompts |-> th[r].prompts] ELSE @]
         /\ HISTORY' = IF th[r].prompts # <<>>
                       THEN appendleft(HISTORY, Jetson2Record(now, th[r].prompts))
                       ELSE HISTORY
    /\ Upd(r, [th[r] EXCEPT !.pc = "done", !.http = 200])
    /\ UNCHANGED <<script, args, messages, kv_cache, last_image_path,
                   interrupt, run_lock, files, seen, n>>

NextComm ==
    \E r \in Requests : FvRead(r) \/ FvLast(r) \/ FvHist(r) \/ FvPost(r) \/ FvRecord(r)

SpecComm == InitComm /\ [][NextComm]_vars

Init == InitChat \/ InitServer \/ InitLedger \/ InitKey \/ InitReceiver \/ InitRelay \/ InitDir \/ InitWindow \/ InitTools \/ InitOwl \/ InitViewer \/ InitComm \/ InitLock \/ InitMirror
Next == NextChat \/ NextServer \/ NextLedger \/ NextKey \/ NextReceiver \/ NextRelay \/ NextDir \/ NextWindow \/ NextTools \/ NextOwl \/ NextViewer \/ NextComm \/ NextLock \/ NextMirror
Spec == Init /\ [][Next]_vars

\* ------------------------------------------------------------------ claims
LastTurn == messages[Len(messages)]

\* the bot turn of a cancelled stream has just been appended by thread t
Cancelled(t) == th[t].pc = "save" /\ th[t].cancel_at >= 0
\* the fragments consumed up to the cancellation point, concatenated
CancelledText(t) == Concat(SubSeq(th[t].pulled, 1, th[t].cancel_at))

\* C1 as stated: a stream cancelled after N fragments commits exactly the
\* concatenation of fragments 1..N as the bot turn, never the empty string
C1_Original ==
    \A t \in Threads :
        Cancelled(t) =>
            /\ LastTurn.role = "bot"
            /\ LastTurn.content = CancelledText(t)
            /\ LastTurn.content # <<>>

\* C1: a stream cancelled after N fragments commits a bot turn made of
\* fragments 1..N only, in order: their exact (non-empty) concatenation in the
\* http and tj scripts, and that concatenation passed through _clean_llm_text
\* in __main__.py; nothing is consumed after the cancellation point
C1_CancelCommitsPrefix ==
    \A t \in Threads :
        Cancelled(t) =>
            /\ Len(th[t].pulled) = th[t].cancel_at
            /\ LastTurn.role = "bot"
            /\ LastTurn.by = t
            /\ IF script = "main"
               THEN LastTurn.content = clean_llm_text(CancelledText(t))
               ELSE LastTurn.content = CancelledText(t) /\ LastTurn.content # <<>>

C1_Witness ==
    /\ Cancelled("cli")
    /\ th["cli"].cancel_at = 2
    /\ LastTurn.content = th["cli"].pulled[1] \o th["cli"].pulled[2]

\* the part of describe() that runs inside 'with _run_lock'
InSession(t) ==
    th[t].pc \in {"pup", "embed", "generate", "stream", "after_gen", "save",
                  "ae_load", "ae_open", "ae_dump", "ae_forward", "ae_post",
                  "describe", "http500"}

\* C2: at most one /describe request is inside the session at a time, it
\* holds the lock, and every dialogue turn in the store was appended by it
C2_OneRequestInSession ==
    \A t \in Requests :
        InSession(t) =>
            /\ run_lock = t
            /\ \A u \in Requests : InSession(u) => u = t
            /\ \A i \in 1..Len(messages) :
                   messages[i].role # "system" => messages[i].by = t

C2_Witness ==
    /\ th["r1"].pc = "lock"
    /\ th["r2"].pc = "generate" /\ th["r2"].step = 3
    /\ Len(messages) = 4

\* thread t has come back from the write of the append function
Appended(t) ==
    /\ th[t].json_path # None
    /\ ~th[t].raised
    /\ th[t].pc \in {"ae_forward", "ae_post", "tools", "describe"}

\* C3: from an absent or well-formed document, the entries after an append
\* are the entries before it followed by the new record
C3_AppendOnly ==
    \A t \in Threads :
        Appended(t) /\ (th[t].old = Absent \/ WellFormed(th[t].old)) =>
            /\ WellFormed(files[th[t].json_path])
            /\ Entries(files[th[t].json_path])
                   = Append(Entries(th[t].old), th[t].record)

C3_Witness ==
    /\ Appended("cli")
    /\ Len(Entries(th["cli"].old)) = 1
    /\ Len(Entries(files[th["cli"].json_path])) = 2
    /\ Entries(files[th["cli"].json_path])[1].prompt = ImgA
    /\ Entries(files[th["cli"].json_path])[2].prompt = Hi

\* C4 as stated: an append to a file that is not a valid document never
\* fails, and leaves the fresh document with exactly the new record
C4_MalformedReplaced ==
    \A t \in Threads :
        /\ ~th[t].raised
        /\ Appended(t) /\ Malformed(th[t].old) =>
               files[th[t].json_path]
                   = JObject(FreshDoc(StripQuotes(last_image_path)).top,
                             EList(<<th[t].record>>))

\* the relay of thread t is about to post, is posting or has posted
Relaying(t) == th[t].pc \in {"ae_forward", "ae_post"} \/ th[t].status # 0

\* C5: before the POST and after it, whatever its outcome, the local file
\* is the complete document and its last entry is the new record
C5_ForwardAdditive ==
    \A t \in Threads :
        Relaying(t) =>
            /\ files[th[t].json_path] = th[t].doc
            /\ WellFormed(files[th[t].json_path])
            /\ Entries(files[th[t].json_path])
                   [Len(Entries(files[th[t].json_path]))] = th[t].record

C5_Witness ==
    /\ th["cli"].status = -1
    /\ th["cli"].pc = "tools"
    /\ WellFormed(files[th["cli"].json_path])
    /\ th["cli"].record \in
           {Entries(files[th["cli"].json_path])[i] :
                i \in 1..Len(Entries(files[th["cli"].json_path]))}

\* the generation call of thread t has raised and the cycle went on from it
Failed(t) == th[t].gen_failed /\ th[t].pc \in {"tools", "describe", "crashed"}

\* C6 as stated: after the generation call raised, the user turn is followed
\* by a bot turn that carries the error marker
C6_ErrorTurnRecorded ==
    \A t \in Threads :
        Failed(t) =>
            /\ Len(messages) >= 2
            /\ LastTurn.role = "bot" /\ LastTurn.content = ErrorText
            /\ messages[Len(messages) - 1].role = "user"

\* C7 as stated: no front-end is terminated by a failure of the generation
\* call
C7_ProcessSurvives ==
    \A t \in Threads : th[t].gen_failed => th[t].pc # "crashed"

\* thread t has just run a reset: the CLI command, or the first lines of the
\* with-block of describe()
JustReset(t) ==
    \/ /\ t = "cli" /\ th[t].pc = "top"
       /\ Lower(th[t].user_prompt) \in {ResetText, ClearText}
    \/ th[t].pc = "pup" /\ th[t].step = 1

\* C8: right after a reset the store holds no dialogue turn (only the system
\* prompt, when one is configured) and the cache is cold
C8_ResetClears ==
    \A t \in Threads :
        JustReset(t) =>
            /\ \A i \in 1..Len(messages) : messages[i].role = "system"
            /\ kv_cache = Cold

C8_Witness ==
    /\ JustReset("cli")
    /\ th["cli"].result # None
    /\ n.prompts = 2
    /\ ~kv_cache.warm

\* C9 as stated: no forwarding POST, and no image fetch before it, runs
\* while the request holds the session lock
C9_NoPostUnderLock ==
    \A t \in Requests :
        th[t].pc \in {"ae_forward", "ae_post"} => run_lock # t

\* C10 as stated: a reader of a ledger file never gets an empty or a
\* half-written file
C10_AtomicRewrite == seen # "torn"

\* model.generate of thread t has been called and has returned
Generated(t) == th[t].pc \in {"stream", "after_gen"}
DialogueTurns == {i \in 1..Len(messages) : messages[i].role # "system"}

\* C11: the cache handle given to model.generate is the tracker's (none when
\* it is cold) and covers only turns before this prompt, the position given
\* is the one embed_chat returned for this turn, and the first generation
\* after a reset gets no cache and position 0
C11_CacheArguments ==
    \A t \in Threads :
        Generated(t) =>
            /\ th[t].kv_cache_arg = kv_cache
            /\ th[t].kv_cache_arg.warm => th[t].kv_cache_arg.turns < Len(messages)
            /\ th[t].cache_position = th[t].position
            /\ th[t].cache_position =
                   (IF args.has_embed /\ kv_cache.warm THEN kv_cache.turns ELSE 0)
            /\ (\A i \in DialogueTurns : messages[i].role = "user") =>
                   th[t].kv_cache_arg = Cold /\ th[t].cache_position = 0

C11_Witness ==
    /\ Generated("cli")
    /\ th["cli"].kv_cache_arg.warm
    /\ th["cli"].cache_position = 2
    /\ Len(messages) = 3

\* a step of thread t's stream taken with the interrupt flag set; a fragment
\* was consumed with the flag clear, so the flag was set during this stream
StepInterrupted(t) ==
    /\ th[t].pc = "stream" /\ th[t].token_count >= 1
    /\ interrupt /\ th'[t] # th[t]

\* C12 as stated: once the flag is set during a streaming generation, the
\* stream's next step consumes at most one fragment, stops the stream, clears
\* the flag and ends the consumption
C12_CooperativeCancel ==
    [][\A t \in Threads :
          StepInterrupted(t) =>
              /\ th'[t].pc # "stream"
              /\ th'[t].stopped
              /\ ~interrupt'
              /\ Len(th'[t].pulled) <= Len(th[t].pulled) + 1]_vars

\* the turns of the store other than the system prompt
Dialogue == SelectSeq(messages, LAMBDA m : m.role # "system")

\* the step by which request t leaves the with-block of describe()
Releases(t) == run_lock = t /\ run_lock' = "free"

\* C13 as stated: when a request releases the lock the store holds exactly
\* the image turn, the auto prompt and its reply, followed by the question
\* and its reply if and only if a non-blank question was supplied
C13_DescribeOrder ==
    [][\A t \in Requests :
          Releases(t) =>
              /\ Len(Dialogue) = (IF th[t].question = None THEN 3 ELSE 5)
              /\ Dialogue[1] = Turn("user", th[t].image_path, t)
              /\ Dialogue[2] = Turn("user", AutoPrompt, t)
              /\ Dialogue[3].role = "bot" /\ Dialogue[3].by = t
              /\ th[t].question # None =>
                     /\ Dialogue[4] = Turn("user", th[t].question, t)
                     /\ Dialogue[5].role = "bot" /\ Dialogue[5].by = t]_vars

\* the step in which describe() reads the body of request t
Received(t) == th[t].pc = "idle" /\ th'[t].pc # "idle"

C15_ResponseFields ==
    [][\A t \in Requests :
          Releases(t) =>
              /\ th'[t].pc = "done" /\ th'[t].http = 200
              /\ th'[t].resp_describe # None
              /\ th'[t].resp_describe = Dialogue[3].content
              /\ th'[t].resp_question = None <=> th[t].question = None
              /\ th[t].question # None =>
                     th'[t].resp_question = Dialogue[5].content]_vars

\* a key has been derived from the input built from the parts p
Derived(p) == last_image_path = KeyInput(p) /\ th["cli"].json_path # None

\* C16 as stated: for a URL the key is the basename of the URL's path with
\* its extension replaced by .json, for a local path the path with its
\* extension replaced by .json
C16_Original ==
    \A p \in KeyParts :
        Derived(p) /\ p.wrap = <<>> =>
            th["cli"].json_path =
                (IF p.scheme # <<>> THEN p.stem \o DotJson
                 ELSE p.dir \o p.stem \o DotJson)

\* C16: surrounding blanks and quotes are ignored; for a URL the key is the
\* basename of the URL's path with its extension replaced by .json, and
\* image.json when the path has no basename; for a local path it is the path
\* with its extension replaced by .json; every call gives that same key, with
\* or without a ledger file at the key
C16_DeriveKey ==
    \A p \in KeyParts :
        Derived(p) =>
            th["cli"].json_path =
                (IF p.scheme # <<>>
                 THEN (IF p.stem = <<>> THEN ImageBase ELSE p.stem) \o DotJson
                 ELSE p.dir \o p.stem \o DotJson)

C16_Witness ==
    /\ Derived([wrap |-> <<"'">>, scheme |-> HostUrl, dir |-> <<"d", "/">>,
                stem |-> <<"c", "a", "t">>, ext |-> DotJpg,
                query |-> <<"?", "q", "=", "x", ".", "y">>])
    /\ th["cli"].json_path = <<"c", "a", "t">> \o DotJson
    /\ n.prompts = 2
    /\ files[json_path_for_image(ImgA)] # Absent

\* the records written, in order, while image was the session's image
SavedFor(image) ==
    LET w == SelectSeq(n.log, LAMBDA e : e.image = image)
    IN  [i \in 1..Len(w) |-> w[i].record]

\* C17 as stated: the document at an image's key holds exactly the entries
\* saved while that image was the session's image, in the order they were
\* saved (after those an earlier run of the process left there)
C17_OneDocumentPerImage ==
    \A image \in {ImgA, ImgPng, ImgUrl} :
        LET doc == files[json_path_for_image(image)] IN
        SavedFor(image) # <<>> /\ WellFormed(doc) =>
            Entries(doc) \in {SavedFor(image), <<OldRecord>> \o SavedFor(image)}

\* C18 as stated: with ledger saving on, every cycle that stored a bot reply
\* ends with one entry for that prompt and reply appended to the ledger of
\* the most recent image, or with no ledger write when there is no image
C18_MostRecentImage ==
    LET c == th["cli"] IN
    /\ c.pc # "crashed"
    /\ c.pc = "tools" =>
          IF last_image_path = None
          THEN c.json_path = None
          ELSE /\ ~c.raised
               /\ c.json_path = json_path_for_image(last_image_path)
               /\ WellFormed(files[c.json_path])
               /\ LET e == Entries(files[c.json_path]) IN
                  /\ e # <<>>
                  /\ e[Len(e)].prompt = c.user_prompt
                  /\ e[Len(e)].response = c.reply_text

\* the ledger key of the image the requests describe
KeyA == json_path_for_image(ImgA)

\* the records written to the file at key k, in the order of the writes
WrittenTo(k) ==
    LET w == SelectSeq(n.log, LAMBDA e : e.json_path = k)
    IN  [i \in 1..Len(w) |-> w[i].record]

\* the generations of answered requests that produced a reply
RepliesAnswered ==
    { g \in Requests \X {1, 2} :
        /\ th[g[1]].pc = "done" /\ th[g[1]].http = 200
        /\ g[2] = 1 => th[g[1]].resp_describe # ErrorText
        /\ g[2] = 2 => th[g[1]].resp_question \notin {None, ErrorText} }

\* C19: in server mode a request reads, truncates or writes a ledger file
\* only while it holds the session lock, every complete document holds all the
\* records written to its key, in the order of the writes, and at least one
\* entry per reply of the requests answered so far
C19_NoLostAppend ==
    /\ \A t \in Requests :
           th[t].pc \in {"ae_load", "ae_open", "ae_dump"} => run_lock = t
    /\ \A k \in Keys :
           WellFormed(files[k]) =>
               /\ Entries(files[k]) = WrittenTo(k)
               /\ args.save_json_by_image /\ k = KeyA =>
                      Len(Entries(files[k])) >= Cardinality(RepliesAnswered)

C19_Witness ==
    /\ th["r1"].pc = "done" /\ th["r1"].http = 200
    /\ th["r2"].pc = "done" /\ th["r2"].http = 200
    /\ Len(Entries(files[json_path_for_image(ImgA)])) = 3
    /\ Cardinality(RepliesAnswered) = 3

\* C20 as stated: a forward is reported as a success if and only if the
\* status is a 2xx status, and as a warning for every other status and for
\* a transport failure
C20_SuccessIs2xx ==
    \A t \in Threads :
        th[t].forward # "none" =>
            /\ th[t].forward = "ok" <=> th[t].status \in 200..299
            /\ th[t].forward = "warn" <=> th[t].status \notin 200..299

\* the document thread t is about to post
Posting(t) == th[t].pc = "ae_post"

\* C21 as stated: the document that is posted carries the attachment fields
\* exactly when the image was read and is within the cap; otherwise it is
\* the ledger document itself, and the local file is what was written
C21_Original ==
    \A t \in Threads :
        Posting(t) =>
            /\ files[th[t].json_path] = th[t].doc
            /\ IF th[t].img_src.readable /\ th[t].img_src.size <= max_bytes
               THEN AttachmentFields \subseteq DOMAIN th[t].out_doc.top
               ELSE th[t].out_doc = th[t].doc

\* C21: an image that cannot be read, is empty or is larger than the cap is
\* left out and the POST is still issued, with the ledger document itself;
\* the three attachment fields are there exactly when the image was read, is
\* not empty and is within the cap; the local file is what was written
C21_AttachmentOmitted ==
    \A t \in Threads :
        Posting(t) =>
            /\ files[th[t].json_path] = th[t].doc
            /\ AttachmentFields \cap DOMAIN th[t].doc.top = {}
            /\ IF /\ th[t].img_src.readable
                  /\ 0 < th[t].img_src.size /\ th[t].img_src.size <= max_bytes
               THEN /\ AttachmentFields \subseteq DOMAIN th[t].out_doc.top
                    /\ th[t].out_doc.entries = th[t].doc.entries
               ELSE th[t].out_doc = th[t].doc

C21_Witness ==
    /\ Posting("cli")
    /\ th["cli"].img_src = [readable |-> TRUE, size |-> max_bytes + 1]
    /\ th["cli"].out_doc = th["cli"].doc
    /\ WellFormed(files[th["cli"].json_path])

\* the appends that have written the local file and not yet posted
AwaitingPost == {t \in Threads : th[t].pc \in {"ae_forward", "ae_post"}}

Ingested(r) == th[r].pc = "ingested"

\* C23: no file holds an attachment field: not the sender's local ledger
\* files, and not the JSON documents the receiver has stored
C23_TransientNotPersisted ==
    \A k \in DOMAIN files :
        files[k].t = "object" => AttachmentFields \cap DOMAIN files[k].top = {}

C23_Witness ==
    \E r \in Requests :
        /\ Ingested(r)
        /\ AttachmentFields \subseteq DOMAIN th[r].body.top
        /\ files[th[r].response.json].t = "object"
        /\ \E k \in Keys : WellFormed(files[k])

\* C25: /ingest answers 400 and saves nothing for a body that is not a JSON
\* object; for every object it saves the document without the attachment
\* fields and answers 200 with ok and the saved path, with image_error and
\* no image path when the attachment cannot be decoded
C25_IngestAnswers ==
    \A r \in Requests :
        Ingested(r) =>
            IF th[r].body.t # "object"
            THEN th[r].response.status = 400 /\ th[r].response.json = None
            ELSE /\ th[r].response.status = 200 /\ th[r].response.ok
                 /\ th[r].response.json \in DOMAIN files
                 /\ Get(th[r].body.top, "_image_b64", None) = BadB64
                        => th[r].response.image_error
                             /\ th[r].response.image = None

\* C24: an append never fails for a missing parent directory: whenever a
\* turn has saved or is saving, its append has not raised, and once the
\* file is open the key's parent directory exists
C24_ParentDirEnsured ==
    \A t \in Threads :
        /\ ~th[t].raised
        /\ th[t].pc = "ae_dump" => DirExists(files, ParentDir(th[t].json_path))

\* thread t has assembled the context of its turn
Assembled(t) == th[t].pc = "generate"

\* C26: every assembled window holds the system turn when the history has
\* one, whatever the budget
C26_SystemTurnRetained ==
    \A t \in Threads :
        Assembled(t) =>
            \A i \in 1..Len(messages) :
                messages[i].role = "system" => i \in th[t].window.turns

C26_Witness ==
    /\ Assembled("cli")
    /\ Len(messages) >= 4 /\ messages[1].role = "system"
    /\ args.max_tokens < Cost(messages[1]) + Cost(messages[Len(messages)])
    /\ th["cli"].window.turns = {1, Len(messages)}

\* the streaming loop of thread t has ended
Streamed(t) == th[t].pc = "after_gen" /\ ~args.disable_streaming

\* C27: after a streaming generation the throughput figure is there exactly
\* when at least one fragment was consumed, with the number of fragments
\* consumed as its count, cancelled or not
C27_ThroughputReported ==
    \A t \in Threads :
        Streamed(t) =>
            /\ th[t].stats.throughput <=> Len(th[t].pulled) >= 1
            /\ th[t].stats.throughput => th[t].stats.tokens = Len(th[t].pulled)

C27_Witness ==
    /\ Streamed("cli") /\ th["cli"].stopped
    /\ th["cli"].stats = [throughput |-> TRUE, tokens |-> 1]

\* the loop is at its top and it is not the user's turn: a tool response
\* waits for the bot's answer
ToolPending == th["cli"].pc = "top" /\ ~UserTurn

\* C28: the CLI loop of the http script does what the tj loop does: when a
\* tool response is the last turn, the iteration skips the prompt and goes
\* on to embed and generate the bot's answer to it
C28_SameLoopAsTj ==
    [][ToolPending => th'["cli"].pc = "embed"]_vars

\* the one-off generation of thread t has run on its temporary history
OneOffDone(t) == th[t].pc = "owl_bot"

\* C29: the OWL one-off leaves the main history alone: when it has run, the
\* last turn of the main history is still the user's turn of this input and
\* the cache covers no more than before; and every bot turn of the main
\* history follows a user turn: an input gets its user turn and a single
\* bot turn
C29_OwlIsolated ==
    /\ \A t \in Threads :
         OneOffDone(t) =>
            /\ th[t].tmp # <<>>
            /\ LastTurn = Turn("user", th[t].user_prompt, t)
            /\ kv_cache.turns < Len(messages)
    /\ \A i \in 1..Len(messages) :
         messages[i].role = "bot" => i > 1 /\ messages[i - 1].role = "user"

\* the viewer has extracted the text of the document it loaded
Shown == th["cli"].pc = "shown"
\* the text of a place of the document, as it is shown
ShownAs(tag) == <<tag>>

\* C30: the text shown is the first entry's response when entries is a
\* non-empty list and that response is a non-blank string; else the
\* top-level response_describe when it is a non-blank string; else the first
\* non-blank string among description, caption, summary, output, response;
\* else the placeholder
C30_ExtractPriority ==
    Shown =>
        LET doc == th["cli"].body
            text == th["cli"].result
            e == doc.entries
            byEntry == /\ e.k = "list" /\ Len(e.v) > 0 /\ e.v[1].k = "dict"
                       /\ NonBlank(e.v[1].response)
            byDescribe == ~byEntry /\ NonBlank(doc.response_describe)
            others == <<doc.description, doc.caption, doc.summary, doc.output,
                        doc.response>>
            byOther(i) == /\ ~byEntry /\ ~byDescribe /\ NonBlank(others[i])
                          /\ \A j \in 1..(i - 1) : ~NonBlank(others[j])
        IN  /\ byEntry => text = CleanText(e.v[1].response)
            /\ byDescribe => text = ShownAs("d")
            /\ \A i \in 1..5 :
                 byOther(i) => text = ShownAs(<<"1", "2", "3", "4", "5">>[i])
            /\ (~byEntry /\ ~byDescribe /\ \A i \in 1..5 : ~NonBlank(others[i]))
                 => text = Placeholder

C30_Witness ==
    /\ Shown
    /\ th["cli"].body.entries.k = "list" /\ Len(th["cli"].body.entries.v) = 2
    /\ th["cli"].body.entries.v[1].response = VStr(Blank)
    /\ th["cli"].body.response_describe = VStr(Blank)
    /\ th["cli"].body.description = VMissing
    /\ th["cli"].body.caption = VStr(ViewText("2"))
    /\ th["cli"].body.response = VStr(ViewText("5"))
    /\ th["cli"].result = ShownAs("2")

\* ------------------------------------------------------------------ C31
\* the forward of a request was reported as failed: the request was answered
\* with a forward status that is not a success
ForwardFailed(r) ==
    /\ th[r].pc = "done"
    /\ th[r].http = 200
    /\ th[r].attempts > 0
    /\ th[r].f_status \notin {200, 201, 204}

\* C31: in the comm manager a forward is reported as failed only after the
\* POST to Jetson-2 was attempted as many times as --forward-retries
\* configures
C31_RetriedBeforeFailure ==
    script = "comm" =>
        \A r \in Requests : ForwardFailed(r) => th[r].attempts >= args.forward_retries

\* ------------------------------------------------------------------ C40
\* every request has been answered
Quiescent == \A r \in Requests : th[r].pc \in {"idle", "done"}

VilaAt == {i \in 1..Len(HISTORY) : HISTORY[i].src = "vila"}

\* the first 'vila' record of the deque, which is ordered newest first
NewestVila == HISTORY[CHOOSE i \in VilaAt : \A j \in VilaAt : i <= j]

\* C40: after any sequence of possibly concurrent /from_vila requests the
\* deque holds at most 200 records, newest first, and LAST['vila_caption']
\* is the caption of its newest 'vila' record
C40_LastIsNewest ==
    (script = "comm" /\ Quiescent) =>
        /\ Len(HISTORY) <= maxlen
        /\ \A i \in 1..(Len(HISTORY) - 1) : HISTORY[i].ts >= HISTORY[i + 1].ts
        /\ VilaAt # {} =>
             /\ LAST.vila_caption # <<>>
             /\ LAST.vila_caption.text = NewestVila.text
             /\ LAST.vila_caption.ts = NewestVila.ts

\* ------------------------------------------------------------------ C32
\* the loop of __main__.py is about to read its next input line
AwaitingInput == script = "main" /\ th["cli"].pc = "top"

\* C32: in __main__.py every input line that is no command leaves exactly
\* one user turn followed by exactly one bot turn (and at most one
\* tool_response turn after it) in the main history, on the regular path,
\* on the OWL fast path, and when the fast path fails and falls back
C32_OneUserOneBot ==
    AwaitingInput =>
        \A i \in 1..Len(messages) :
            /\ messages[i].role = "user" =>
                 i < Len(messages) /\ messages[i + 1].role = "bot"
            /\ messages[i].role = "bot" =>
                 i > 1 /\ messages[i - 1].role = "user"
            /\ messages[i].role = "tool_response" =>
                 i > 1 /\ messages[i - 1].role = "bot"

\* ------------------------------------------------------------------ C33
\* thread t's step creates a stream and enters its fragment loop
StreamStarts(t) == th[t].pc # "stream" /\ th'[t].pc = "stream"

\* C33: an interrupt cancels at most the streaming generation in progress
\* when it is raised: a generation that starts finds no interrupt pending,
\* since a flag raised while no fragment loop was running does not reach a
\* later stream (a flag that is set truncates the stream at its next
\* fragment)
C33_InterruptNotCarriedOver ==
    [][\A t \in Threads : StreamStarts(t) => ~interrupt]_vars

\* ------------------------------------------------------------------ C34
\* the loop of the http script generates a reply or has read a prompt
LoopProgress == th["cli"].pc \in {"pup", "embed", "generate"}

\* C34: the CLI loop of the http script always makes progress: once a tool
\* response is the last turn and the loop is at its top, it eventually
\* generates a bot reply or reads the next prompt
C34_LoopProgress ==
    (script = "http" /\ ToolPending) ~> LoopProgress

BotTurns == {i \in 1..Len(messages) : messages[i].role = "bot"}
UserTurns == {i \in 1..Len(messages) : messages[i].role = "user"}
\* the user turn the reply being saved answers: the last one of the store
AnsweredTurn == messages[CHOOSE i \in UserTurns : \A j \in UserTurns : i >= j]

\* thread t's step writes a ledger entry
Dumped(t) == th[t].pc = "ae_dump" /\ Len(n'.log) = Len(n.log) + 1

\* C36: every ledger entry mirrors one generation cycle: when it is written
\* the last turn is the bot turn of that cycle, no error marker, whose
\* content is the entry's response, and the entry's prompt is the user turn
\* that reply answers; and no more entries are written than bot turns were
\* appended
C36_EntryMirrorsCycle ==
    /\ [](Len(n.log) <= Cardinality(BotTurns))
    /\ [][\A t \in Threads :
            Dumped(t) =>
                LET e == n'.log[Len(n'.log)].record IN
                /\ LastTurn.role = "bot" /\ LastTurn.by = t
                /\ LastTurn.content # ErrorText
                /\ e.response = LastTurn.content
                /\ UserTurns # {} /\ e.prompt = AnsweredTurn.content]_vars

\* an entry was written for one reply and none for the cycle whose generation
\* failed: the store holds a reply and an error turn, the ledger one entry
C36_Witness ==
    /\ Len(n.log) = 1
    /\ \E i, j \in BotTurns :
         messages[i].content = ErrorText /\ messages[j].content # ErrorText
    /\ th["cli"].pc = "top"

\* ------------------------------------------------------------------ C37
\* C37: two different images never share a ledger document: the keys of
\* images that differ after quote-stripping differ, so all the entries
\* written to one document were written for one and the same image
C37_NoSharedDocument ==
    \A i, j \in 1..Len(n.log) :
        n.log[i].json_path = n.log[j].json_path => n.log[i].image = n.log[j].image

\* ------------------------------------------------------------------ C38
\* C38: when the existing ledger document is well-formed, the append changes
\* nothing but the entries list: every top-level key other than entries has
\* the value it had before
C38_TopLevelKept ==
    \A t \in Threads :
        Appended(t) /\ WellFormed(th[t].old) =>
            /\ WellFormed(files[th[t].json_path])
            /\ files[th[t].json_path].top = th[t].old.top

\* an entry was appended to a document written by someone else, with keys of
\* its own, and to a document whose image_path is not the session's image
C38_Witness ==
    /\ Appended("cli") /\ WellFormed(th["cli"].old)
    /\ Len(Entries(files[th["cli"].json_path])) = Len(Entries(th["cli"].old)) + 1
    /\ \/ th["cli"].old.top = LegacyTop
       \/ th["cli"].old.top = FreshDoc(ImgA).top /\ last_image_path = ImgPng

\* ------------------------------------------------------------------ C39
\* the sender's append has written its document and its forward succeeded
Forwarded(t) == Appended(t) /\ th[t].pc = "tools" /\ th[t].forward = "ok"

\* the handler of the receiver that served the latest request
LatestHandler ==
    ReqIds[CHOOSE i \in 1..MaxRequests :
             /\ th[ReqIds[i]].pc # "idle"
             /\ \A j \in (i + 1)..MaxRequests : th[ReqIds[j]].pc = "idle"]

\* C39: after every append whose forward succeeds, the document the
\* receiver stored for the image is the sender's local ledger document: the
\* same top-level fields and the same entries in the same order
C39_ReceiverMirrorsLedger ==
    Forwarded("cli") =>
        /\ \E r \in Requests : Ingested(r)
        /\ th[LatestHandler].response.status = 200
        /\ th[LatestHandler].response.json \in DOMAIN files
        /\ files[th[LatestHandler].response.json] = files[th["cli"].json_path]

\* the second append to a ledger was forwarded and stored by the receiver
C39_Witness ==
    /\ Forwarded("cli")
    /\ Len(Entries(files[th["cli"].json_path])) = 2
    /\ \A r \in Requests : Ingested(r)
    /\ Len(Entries(files[th[LatestHandler].response.json])) = 2

====
